---- MODULE Spec2Model ----
(***************************************************************************)
(* Model of lib/table.c: the column tables, the table sorter and the       *)
(* tree-sequence simplifier.  The specifications share the variables:      *)
(* Spec is simplifier_alloc and simplifier_run with remove_ancestry,       *)
(* merge_ancestors and the edgeset squash buffer; SortSpec is sort_tables; *)
(* TableSpec is a caller's add_row, set_columns and reset on one table.    *)
(* InPlaceSpec, ColumnsSpec and FairSpec are the simplifier of Spec on     *)
(* wide parent groups, on node tables set from columns, and with the merge *)
(* loop taking its steps.                                                  *)
(*                                                                         *)
(* Conventions.  Genomic coordinates and times are doubles in the source;  *)
(* the code only compares and copies them, so they are modelled by small   *)
(* integers.  C arrays are sequences: row j of the source is element j+1.  *)
(* Node ids keep the source's numbering from 0.  A segment pointer is a    *)
(* slot number of the segment heap, NULL is 0.                             *)
(***************************************************************************)
EXTENDS Integers, Sequences, FiniteSets, TLC

\* ---------------------------------------------------------------- bounds
NumNodes == 5
MaxRows == 3
SeqLen == 2
MaxTime == 2
MaxChildren == 2
MaxSamples == 3
RowIncrement == 2
PayloadIncrement == 3
SortNumNodes == 2
MaxSites == 3
MaxMutations == 2
MaxOps == 3
MaxSetRows == 2

\* ------------------------------------------------------- program constants
MSP_NODE_IS_SAMPLE == 1
MSP_ERR_BAD_PARAM_VALUE == -4
MSP_ERR_OUT_OF_BOUNDS == -5
MSP_ERR_BAD_SAMPLES == -6
MSP_ERR_RECORDS_NOT_TIME_SORTED == -7
MSP_ERR_DUPLICATE_SAMPLE == -8
NULL == 0
\* content of a cell that realloc/malloc returned and nobody wrote yet
Junk == -99

\* ---------------------------------------------------------------- helpers
GSL_MIN(a, b) == IF a < b THEN a ELSE b

Range(s) == {s[i] : i \in 1..Len(s)}

RECURSIVE SumSeq(_)
SumSeq(s) == IF Len(s) = 0 THEN 0 ELSE s[1] + SumSeq(Tail(s))

\* s[from+1 .. from+n] (C: s + from, n elements)
Slice(s, from, n) == [i \in 1..n |-> s[from + i]]

\* memcpy(dst + off, src, Len(src)); the destination is large enough
Memcpy(dst, off, src) ==
    [i \in 1..Len(dst) |->
        IF i > off /\ i <= off + Len(src) THEN src[i - off] ELSE dst[i]]

\* realloc(column, new_size): the old cells are kept, the new ones are junk
expand_column(column, new_max_rows) ==
    [i \in 1..new_max_rows |-> IF i <= Len(column) THEN column[i] ELSE Junk]

\* the sequence s sorted ascending (qsort with cmp_node_id on distinct or equal ids)
RECURSIVE qsort_node_id(_)
qsort_node_id(s) ==
    IF Len(s) = 0 THEN <<>>
    ELSE LET m == CHOOSE i \in 1..Len(s) : \A k \in 1..Len(s) : s[i] <= s[k]
             rest == [k \in 1..(Len(s) - 1) |-> IF k < m THEN s[k] ELSE s[k + 1]]
         IN <<s[m]>> \o qsort_node_id(rest)

\* a column seen through an index past its end: the cells up to n, the
\* missing ones junk (a write past the end of an allocation)
pad(column, n) == IF Len(column) >= n THEN column ELSE expand_column(column, n)

\* ------------------------------------------------------------- node table
node_table_alloc(max_rows_increment, max_total_name_length_increment) ==
    [max_rows_increment |-> max_rows_increment,
     max_total_name_length_increment |-> max_total_name_length_increment,
     max_rows |-> 0, num_rows |-> 0,
     max_total_name_length |-> 0, total_name_length |-> 0,
     flags |-> <<>>, time |-> <<>>, population |-> <<>>,
     name_length |-> <<>>, name |-> <<>>]

node_table_expand_fixed_columns(t, new_size) ==
    IF new_size > t.max_rows
    THEN [t EXCEPT !.flags = expand_column(@, new_size),
                   !.time = expand_column(@, new_size),
                   !.population = expand_column(@, new_size),
                   !.name_length = expand_column(@, new_size),
                   !.max_rows = new_size]
    ELSE t

node_table_expand_name(t, new_size) ==
    IF new_size > t.max_total_name_length
    THEN [t EXCEPT !.name = expand_column(@, new_size),
                   !.max_total_name_length = new_size]
    ELSE t

\* the two assertions of node_table_add_row_internal
node_table_has_room(t, name_length) ==
    /\ t.num_rows < t.max_rows
    /\ t.total_name_length + name_length < t.max_total_name_length

\* The unchecked append.  With the assertions compiled out and no room the
\* writes land past the end of the columns, shown here as the cells written.
node_table_add_row_internal(t, flags, time, population, name_length, name) ==
    [t EXCEPT !.name = Memcpy(pad(@, t.total_name_length + name_length),
                              t.total_name_length, name),
              !.total_name_length = @ + name_length,
              !.flags = [pad(@, t.num_rows + 1) EXCEPT ![t.num_rows + 1] = flags],
              !.time = [pad(@, t.num_rows + 1) EXCEPT ![t.num_rows + 1] = time],
              !.population =
                  [pad(@, t.num_rows + 1) EXCEPT ![t.num_rows + 1] = population],
              !.name_length =
                  [pad(@, t.num_rows + 1) EXCEPT ![t.num_rows + 1] = name_length],
              !.num_rows = @ + 1]

\* while (total_name_length + name_length >= max_total_name_length) expand
RECURSIVE node_table_grow_name(_, _)
node_table_grow_name(t, name_length) ==
    IF t.total_name_length + name_length >= t.max_total_name_length
    THEN node_table_grow_name(
            node_table_expand_name(t,
                t.max_total_name_length + t.max_total_name_length_increment),
            name_length)
    ELSE t

node_table_add_row(t, flags, time, population, name) ==
    node_table_add_row_internal(
        node_table_grow_name(
            IF t.num_rows = t.max_rows
            THEN node_table_expand_fixed_columns(t, t.max_rows + t.max_rows_increment)
            ELSE t,
            Len(name)),
        flags, time, population, Len(name), name)

\* the memcpy's of node_table_set_columns into columns that are large enough
node_table_copy_columns(t, num_rows, flags, time, population, name, name_length, total_name_length) ==
    [t EXCEPT !.flags = Memcpy(@, 0, Slice(flags, 0, num_rows)),
              !.time = Memcpy(@, 0, Slice(time, 0, num_rows)),
              !.name_length = Memcpy(@, 0, Slice(name_length, 0, num_rows)),
              !.name = Memcpy(@, 0, Slice(name, 0, total_name_length)),
              !.total_name_length = total_name_length,
              !.population = Memcpy(@, 0, Slice(population, 0, num_rows)),
              !.num_rows = num_rows]

\* flags, time, population, name and name_length all given
node_table_set_columns(t, num_rows, flags, time, population, name, name_length) ==
    node_table_copy_columns(
        node_table_expand_name(node_table_expand_fixed_columns(t, num_rows),
                               SumSeq(Slice(name_length, 0, num_rows))),
        num_rows, flags, time, population, name, name_length,
        SumSeq(Slice(name_length, 0, num_rows)))

node_table_reset(t) == [t EXCEPT !.num_rows = 0, !.total_name_length = 0]

\* ---------------------------------------------------------- edgeset table
edgeset_table_alloc(max_rows_increment, max_total_children_length_increment) ==
    [max_rows_increment |-> max_rows_increment,
     max_total_children_length_increment |-> max_total_children_length_increment,
     max_rows |-> 0, num_rows |-> 0,
     max_total_children_length |-> 0, total_children_length |-> 0,
     left |-> <<>>, right |-> <<>>, parent |-> <<>>,
     children_length |-> <<>>, children |-> <<>>]

edgeset_table_expand_main_columns(t, new_size) ==
    IF new_size > t.max_rows
    THEN [t EXCEPT !.left = expand_column(@, new_size),
                   !.right = expand_column(@, new_size),
                   !.parent = expand_column(@, new_size),
                   !.children_length = expand_column(@, new_size),
                   !.max_rows = new_size]
    ELSE t

edgeset_table_expand_children(t, new_size) ==
    IF new_size > t.max_total_children_length
    THEN [t EXCEPT !.children = expand_column(@, new_size),
                   !.max_total_children_length = new_size]
    ELSE t

\* while (total_children_length + children_length >= max_total_children_length)
RECURSIVE edgeset_table_grow_children(_, _)
edgeset_table_grow_children(t, children_length) ==
    IF t.total_children_length + children_length >= t.max_total_children_length
    THEN edgeset_table_grow_children(
            edgeset_table_expand_children(t,
                t.max_total_children_length + t.max_total_children_length_increment),
            children_length)
    ELSE t

\* the writes of edgeset_table_add_row, the columns being large enough
edgeset_table_write_row(t, left, right, parent, children, children_length) ==
    [t EXCEPT !.left[t.num_rows + 1] = left,
              !.right[t.num_rows + 1] = right,
              !.parent[t.num_rows + 1] = parent,
              !.children = Memcpy(@, t.total_children_length,
                                  Slice(children, 0, children_length)),
              !.children_length[t.num_rows + 1] = children_length,
              !.total_children_length = @ + children_length,
              !.num_rows = @ + 1]

\* edgeset_table_add_row without the test children_length == 0
edgeset_table_add_row_any_length(t, left, right, parent, children, children_length) ==
    [ret |-> 0,
     t |-> edgeset_table_write_row(
               edgeset_table_grow_children(
                   IF t.num_rows = t.max_rows
                   THEN edgeset_table_expand_main_columns(t,
                            t.max_rows + t.max_rows_increment)
                   ELSE t,
                   children_length),
               left, right, parent, children, children_length)]

\* [ret, t]: the return code and the table afterwards
edgeset_table_add_row(t, left, right, parent, children, children_length) ==
    IF children_length = 0
    THEN [ret |-> MSP_ERR_BAD_PARAM_VALUE, t |-> t]
    ELSE [ret |-> 0,
          t |-> edgeset_table_write_row(
                    edgeset_table_grow_children(
                        IF t.num_rows = t.max_rows
                        THEN edgeset_table_expand_main_columns(t,
                                 t.max_rows + t.max_rows_increment)
                        ELSE t,
                        children_length),
                    left, right, parent, children, children_length)]

\* the bulk replace; every column is given.  The payload length is added
\* to the one the table had (total_children_length += total_children_length)
edgeset_table_set_columns(t, num_rows, left, right, parent, children, children_length) ==
    [edgeset_table_expand_children(
         edgeset_table_expand_main_columns(t, num_rows),
         SumSeq(Slice(children_length, 0, num_rows)))
     EXCEPT !.left = Memcpy(@, 0, Slice(left, 0, num_rows)),
            !.right = Memcpy(@, 0, Slice(right, 0, num_rows)),
            !.parent = Memcpy(@, 0, Slice(parent, 0, num_rows)),
            !.children = Memcpy(@, 0,
                Slice(children, 0, SumSeq(Slice(children_length, 0, num_rows)))),
            !.children_length = Memcpy(@, 0, Slice(children_length, 0, num_rows)),
            !.num_rows = num_rows,
            !.total_children_length =
                @ + SumSeq(Slice(children_length, 0, num_rows))]

edgeset_table_reset(t) == [t EXCEPT !.num_rows = 0, !.total_children_length = 0]

\* ------------------------------------------------- site and mutation tables
site_table_reset(t) ==
    [t EXCEPT !.num_rows = 0, !.total_ancestral_state_length = 0]

mutation_table_reset(t) ==
    [t EXCEPT !.num_rows = 0, !.total_derived_state_length = 0]

site_table_alloc(max_rows_increment, max_total_ancestral_state_length_increment) ==
    [max_rows_increment |-> max_rows_increment, max_rows |-> 0, num_rows |-> 0,
     max_total_ancestral_state_length_increment |->
         max_total_ancestral_state_length_increment,
     max_total_ancestral_state_length |-> 0,
     total_ancestral_state_length |-> 0,
     position |-> <<>>, ancestral_state_length |-> <<>>, ancestral_state |-> <<>>]

site_table_expand_main_columns(t, new_size) ==
    IF new_size > t.max_rows
    THEN [t EXCEPT !.position = expand_column(@, new_size),
                   !.ancestral_state_length = expand_column(@, new_size),
                   !.max_rows = new_size]
    ELSE t

site_table_expand_ancestral_state(t, new_size) ==
    IF new_size > t.max_total_ancestral_state_length
    THEN [t EXCEPT !.ancestral_state = expand_column(@, new_size),
                   !.max_total_ancestral_state_length = new_size]
    ELSE t

\* while (total_ancestral_state_length + ancestral_state_length
\*            >= max_total_ancestral_state_length) expand
RECURSIVE site_table_grow_ancestral_state(_, _)
site_table_grow_ancestral_state(t, ancestral_state_length) ==
    IF t.total_ancestral_state_length + ancestral_state_length
           >= t.max_total_ancestral_state_length
    THEN site_table_grow_ancestral_state(
            site_table_expand_ancestral_state(t,
                t.max_total_ancestral_state_length
                    + t.max_total_ancestral_state_length_increment),
            ancestral_state_length)
    ELSE t

\* the writes of site_table_add_row, the columns being large enough
site_table_write_row(t, position, ancestral_state, ancestral_state_length) ==
    [t EXCEPT !.position[t.num_rows + 1] = position,
              !.ancestral_state_length[t.num_rows + 1] = ancestral_state_length,
              !.ancestral_state = Memcpy(@, t.total_ancestral_state_length,
                  Slice(ancestral_state, 0, ancestral_state_length)),
              !.total_ancestral_state_length = @ + ancestral_state_length,
              !.num_rows = @ + 1]

site_table_add_row(t, position, ancestral_state, ancestral_state_length) ==
    site_table_write_row(
        site_table_grow_ancestral_state(
            IF t.num_rows = t.max_rows
            THEN site_table_expand_main_columns(t, t.max_rows + t.max_rows_increment)
            ELSE t,
            ancestral_state_length),
        position, ancestral_state, ancestral_state_length)

\* the bulk replace; every column is given
site_table_set_columns(t, num_rows, position, ancestral_state, ancestral_state_length) ==
    [site_table_expand_ancestral_state(
         site_table_expand_main_columns(t, num_rows),
         SumSeq(Slice(ancestral_state_length, 0, num_rows)))
     EXCEPT !.position = Memcpy(@, 0, Slice(position, 0, num_rows)),
            !.ancestral_state = Memcpy(@, 0, Slice(ancestral_state, 0,
                SumSeq(Slice(ancestral_state_length, 0, num_rows)))),
            !.ancestral_state_length =
                Memcpy(@, 0, Slice(ancestral_state_length, 0, num_rows)),
            !.num_rows = num_rows,
            !.total_ancestral_state_length =
                SumSeq(Slice(ancestral_state_length, 0, num_rows))]

mutation_table_alloc(max_rows_increment, max_total_derived_state_length_increment) ==
    [max_rows_increment |-> max_rows_increment, max_rows |-> 0, num_rows |-> 0,
     max_total_derived_state_length_increment |->
         max_total_derived_state_length_increment,
     max_total_derived_state_length |-> 0,
     total_derived_state_length |-> 0,
     site |-> <<>>, node |-> <<>>, derived_state_length |-> <<>>,
     derived_state |-> <<>>]

mutation_table_expand_main_columns(t, new_size) ==
    IF new_size > t.max_rows
    THEN [t EXCEPT !.site = expand_column(@, new_size),
                   !.node = expand_column(@, new_size),
                   !.derived_state_length = expand_column(@, new_size),
                   !.max_rows = new_size]
    ELSE t

mutation_table_expand_derived_state(t, new_size) ==
    IF new_size > t.max_total_derived_state_length
    THEN [t EXCEPT !.derived_state = expand_column(@, new_size),
                   !.max_total_derived_state_length = new_size]
    ELSE t

\* while (total_derived_state_length + derived_state_length
\*            >= max_total_derived_state_length) expand
RECURSIVE mutation_table_grow_derived_state(_, _)
mutation_table_grow_derived_state(t, derived_state_length) ==
    IF t.total_derived_state_length + derived_state_length
           >= t.max_total_derived_state_length
    THEN mutation_table_grow_derived_state(
            mutation_table_expand_derived_state(t,
                t.max_total_derived_state_length
                    + t.max_total_derived_state_length_increment),
            derived_state_length)
    ELSE t

\* the writes of mutation_table_add_row, the columns being large enough
mutation_table_write_row(t, site, node, derived_state, derived_state_length) ==
    [t EXCEPT !.site[t.num_rows + 1] = site,
              !.node[t.num_rows + 1] = node,
              !.derived_state_length[t.num_rows + 1] = derived_state_length,
              !.derived_state = Memcpy(@, t.total_derived_state_length,
                  Slice(derived_state, 0, derived_state_length)),
              !.total_derived_state_length = @ + derived_state_length,
              !.num_rows = @ + 1]

mutation_table_add_row(t, site, node, derived_state, derived_state_length) ==
    mutation_table_write_row(
        mutation_table_grow_derived_state(
            IF t.num_rows = t.max_rows
            THEN mutation_table_expand_main_columns(t,
                     t.max_rows + t.max_rows_increment)
            ELSE t,
            derived_state_length),
        site, node, derived_state, derived_state_length)

\* the bulk replace; every column is given
mutation_table_set_columns(t, num_rows, site, node, derived_state, derived_state_length) ==
    [mutation_table_expand_derived_state(
         mutation_table_expand_main_columns(t, num_rows),
         SumSeq(Slice(derived_state_length, 0, num_rows)))
     EXCEPT !.site = Memcpy(@, 0, Slice(site, 0, num_rows)),
            !.node = Memcpy(@, 0, Slice(node, 0, num_rows)),
            !.derived_state_length =
                Memcpy(@, 0, Slice(derived_state_length, 0, num_rows)),
            !.derived_state = Memcpy(@, 0, Slice(derived_state, 0,
                SumSeq(Slice(derived_state_length, 0, num_rows)))),
            !.num_rows = num_rows,
            !.total_derived_state_length =
                SumSeq(Slice(derived_state_length, 0, num_rows))]

\* -------------------------------------------------------- migration table
migration_table_alloc(max_rows_increment) ==
    [max_rows_increment |-> max_rows_increment, max_rows |-> 0, num_rows |-> 0,
     left |-> <<>>, right |-> <<>>, node |-> <<>>, source |-> <<>>,
     dest |-> <<>>, time |-> <<>>]

migration_table_expand(t, new_size) ==
    IF new_size > t.max_rows
    THEN [t EXCEPT !.left = expand_column(@, new_size),
                   !.right = expand_column(@, new_size),
                   !.node = expand_column(@, new_size),
                   !.source = expand_column(@, new_size),
                   !.dest = expand_column(@, new_size),
                   !.time = expand_column(@, new_size),
                   !.max_rows = new_size]
    ELSE t

\* the bulk replace; every column is given
migration_table_set_columns(t, num_rows, left, right, node, source, dest, time) ==
    [migration_table_expand(t, num_rows)
     EXCEPT !.left = Memcpy(@, 0, Slice(left, 0, num_rows)),
            !.right = Memcpy(@, 0, Slice(right, 0, num_rows)),
            !.node = Memcpy(@, 0, Slice(node, 0, num_rows)),
            !.source = Memcpy(@, 0, Slice(source, 0, num_rows)),
            !.dest = Memcpy(@, 0, Slice(dest, 0, num_rows)),
            !.time = Memcpy(@, 0, Slice(time, 0, num_rows)),
            !.num_rows = num_rows]

\* the writes of migration_table_add_row, the columns being large enough
migration_table_write_row(t, left, right, node, source, dest, time) ==
    [t EXCEPT !.left[t.num_rows + 1] = left,
              !.right[t.num_rows + 1] = right,
              !.node[t.num_rows + 1] = node,
              !.source[t.num_rows + 1] = source,
              !.dest[t.num_rows + 1] = dest,
              !.time[t.num_rows + 1] = time,
              !.num_rows = @ + 1]

migration_table_add_row(t, left, right, node, source, dest, time) ==
    migration_table_write_row(
        IF t.num_rows = t.max_rows
        THEN migration_table_expand(t, t.max_rows + t.max_rows_increment)
        ELSE t,
        left, right, node, source, dest, time)

migration_table_reset(t) == [t EXCEPT !.num_rows = 0]

\* ------------------------------------------------------------ object pools
\* object_heap_alloc_object: some free slot of the pool; the pool grows when
\* it has none.  used is the set of slots handed out, top the pool's size.
object_heap_alloc_object(used, top) ==
    IF \E p \in 1..top : p \notin used
    THEN CHOOSE p \in 1..top : p \notin used /\ \A q \in 1..top : q \notin used => p <= q
    ELSE top + 1

\* ------------------------------------------------------- simplifier state
\* memset(self, 0, sizeof(simplifier_t)) and the arguments stored
simplifier_zero(samples, num_samples, sequence_length) ==
    [samples |-> samples, num_samples |-> num_samples,
     sequence_length |-> sequence_length,
     input_nodes |-> node_table_alloc(0, 0),
     node_name_offset |-> <<>>,
     ancestor_map |-> <<>>,
     segment_mem |-> <<>>,          \* segment_heap: the memory of every slot
     segment_used |-> {},           \* segment_heap: the slots allocated
     num_avl_nodes |-> 0,           \* avl_node_heap: number allocated
     num_overlap_counts |-> 0,      \* overlap_count_heap: number allocated
     merge_queue |-> {},            \* the chain heads queued
     overlap_counts |-> <<>>,       \* the ordered map start -> count
     children_buffer_size |-> 0,
     last_edgeset |-> [left |-> 0, right |-> 0, parent |-> 0,
                       children |-> <<>>, children_length |-> 0]]

\* The operations of the simplifier work on a frame f: the simplifier (self),
\* the output tables (nodes, edgesets), the return code (ret), whether every
\* assertion met so far held (ok), the segment last allocated (seg), and
\* the locals of the function in progress.
Frame(self, nodes, edgesets) ==
    [self |-> self, nodes |-> nodes, edgesets |-> edgesets, ret |-> 0,
     ok |-> TRUE, seg |-> NULL,
     \* simplifier_remove_ancestry
     x |-> NULL, last |-> NULL, head |-> NULL, x_prev |-> NULL,
     \* simplifier_merge_ancestors
     z |-> NULL, coalescence |-> FALSE, alpha |-> NULL, H |-> <<>>,
     l |-> 0, r |-> 0, r_max |-> 0, next_l |-> 0, node |-> NULL, v |-> 0,
     full |-> FALSE, emit |-> <<>>]

\* the segment goes to slot seg of the pool
alloc_segment_at(f, seg, rec) ==
    [f EXCEPT !.self.segment_mem =
                  IF seg > Len(@) THEN Append(@, rec) ELSE [@ EXCEPT ![seg] = rec],
              !.self.segment_used = @ \cup {seg},
              !.seg = seg]

\* simplifier_alloc_segment never fails here (memory suffices); f.seg is
\* the segment returned
simplifier_alloc_segment(f, left, right, node, next) ==
    alloc_segment_at(f,
        object_heap_alloc_object(f.self.segment_used, Len(f.self.segment_mem)),
        [left |-> left, right |-> right, node |-> node, next |-> next])

\* the slot goes back to the pool; its memory keeps its content
simplifier_free_segment(f, seg) ==
    [f EXCEPT !.self.segment_used = @ \ {seg}]

\* Inserts a new overlap_count at x with count v: an avl node and an
\* overlap_count record are taken from their pools.  avl_insert_node
\* returns NULL when the key is present and then inserts nothing, which
\* the assertion node != NULL rules out.
simplifier_insert_overlap_count(f, x, v) ==
    [f EXCEPT !.self.num_avl_nodes = @ + 1,
              !.self.num_overlap_counts = @ + 1,
              !.self.overlap_counts =
                  IF x \in DOMAIN @ THEN @
                  ELSE [y \in DOMAIN @ \cup {x} |-> IF y = x THEN v ELSE @[y]],
              !.ok = @ /\ x \notin DOMAIN f.self.overlap_counts]

\* Inserts a new overlap_count at x and copies its count from the containing
\* overlap count (the entry with the greatest start below x).
simplifier_copy_overlap_count(f, x) ==
    simplifier_insert_overlap_count(f, x,
        f.self.overlap_counts[
            CHOOSE y \in DOMAIN f.self.overlap_counts :
                /\ y <= x
                /\ \A w \in DOMAIN f.self.overlap_counts : w <= x => w <= y])

\* record_node that takes the name from the start of the name column,
\* not from node_name_offset[input_id]
simplifier_record_node_first_name(f, input_id) ==
    [f EXCEPT !.ok = @ /\ node_table_has_room(f.nodes,
                              f.self.input_nodes.name_length[input_id + 1]),
              !.nodes = node_table_add_row_internal(@,
                  f.self.input_nodes.flags[input_id + 1],
                  f.self.input_nodes.time[input_id + 1],
                  f.self.input_nodes.population[input_id + 1],
                  f.self.input_nodes.name_length[input_id + 1],
                  Slice(f.self.input_nodes.name, 0,
                        f.self.input_nodes.name_length[input_id + 1]))]

\* Add a new node to the output node table corresponding to input_id; the
\* assertions of the unchecked append are recorded in ok
simplifier_record_node(f, input_id) ==
    [f EXCEPT !.ok = @ /\ node_table_has_room(f.nodes,
                              f.self.input_nodes.name_length[input_id + 1]),
              !.nodes = node_table_add_row_internal(@,
                  f.self.input_nodes.flags[input_id + 1],
                  f.self.input_nodes.time[input_id + 1],
                  f.self.input_nodes.population[input_id + 1],
                  f.self.input_nodes.name_length[input_id + 1],
                  Slice(f.self.input_nodes.name,
                        f.self.node_name_offset[input_id + 1],
                        f.self.input_nodes.name_length[input_id + 1]))]

\* -------------------------------------------------------- simplifier_alloc
node_name_offsets(name_length, num_rows) ==
    [j \in 1..num_rows |-> SumSeq(Slice(name_length, 0, j - 1))]

\* a sample found valid: its chain [0, sequence_length) -> the next output
\* id is installed (f.seg is the segment) and its output node is recorded
simplifier_alloc_install(f, input_node) ==
    simplifier_record_node(
        [f EXCEPT !.self.ancestor_map[input_node + 1] = f.seg], input_node)

\* the loop over the samples without the test for a duplicate
RECURSIVE simplifier_alloc_samples_unchecked(_, _)
simplifier_alloc_samples_unchecked(f, j) ==
    IF j >= f.self.num_samples THEN f
    ELSE IF \/ f.self.samples[j + 1] < 0
            \/ f.self.samples[j + 1] >= f.self.input_nodes.num_rows
    THEN [f EXCEPT !.ret = MSP_ERR_OUT_OF_BOUNDS]
    ELSE IF f.self.input_nodes.flags[f.self.samples[j + 1] + 1] % 2
                /= MSP_NODE_IS_SAMPLE
    THEN [f EXCEPT !.ret = MSP_ERR_BAD_SAMPLES]
    ELSE simplifier_alloc_samples_unchecked(
            simplifier_alloc_install(
                simplifier_alloc_segment(f, 0, f.self.sequence_length,
                                         f.nodes.num_rows, NULL),
                f.self.samples[j + 1]),
            j + 1)

\* the loop over the samples of simplifier_alloc, from index j (0-based) on
RECURSIVE simplifier_alloc_samples(_, _)
simplifier_alloc_samples(f, j) ==
    IF j >= f.self.num_samples THEN f
    ELSE IF \/ f.self.samples[j + 1] < 0
            \/ f.self.samples[j + 1] >= f.self.input_nodes.num_rows
    THEN [f EXCEPT !.ret = MSP_ERR_OUT_OF_BOUNDS]
    ELSE IF f.self.input_nodes.flags[f.self.samples[j + 1] + 1] % 2
                /= MSP_NODE_IS_SAMPLE
    THEN [f EXCEPT !.ret = MSP_ERR_BAD_SAMPLES]
    ELSE IF f.self.ancestor_map[f.self.samples[j + 1] + 1] /= NULL
    THEN [f EXCEPT !.ret = MSP_ERR_DUPLICATE_SAMPLE]
    ELSE simplifier_alloc_samples(
            simplifier_alloc_install(
                simplifier_alloc_segment(f, 0, f.self.sequence_length,
                                         f.nodes.num_rows, NULL),
                f.self.samples[j + 1]),
            j + 1)

\* the snapshot of the input nodes and the maps, before the samples loop
simplifier_alloc_maps(self, input_nodes) ==
    [self EXCEPT
        !.input_nodes = input_nodes,
        !.node_name_offset =
            node_name_offsets(input_nodes.name_length, input_nodes.num_rows),
        !.ancestor_map = [j \in 1..input_nodes.num_rows |-> NULL]]

\* after the samples loop: the buffers and the two sentinel overlap counts
simplifier_alloc_counts(f) ==
    simplifier_insert_overlap_count(
        simplifier_insert_overlap_count(
            [f EXCEPT !.self.children_buffer_size = 2,
                      !.self.last_edgeset.children = <<Junk, Junk>>],
            0, f.self.num_samples),
        f.self.sequence_length, f.self.num_samples + 1)

\* simplifier_alloc returning with the site and mutation tables cleared
\* whatever the return code
simplifier_alloc_result_cleared(f, sites, mutations, reset) ==
    [ret |-> f.ret, ok |-> f.ok, self |-> f.self, nodes |-> f.nodes,
     sites |-> site_table_reset(sites),
     mutations |-> mutation_table_reset(mutations)]

\* the result of simplifier_alloc from the frame f it ends with
simplifier_alloc_result(f, sites, mutations, reset) ==
    [ret |-> f.ret, ok |-> f.ok, self |-> f.self, nodes |-> f.nodes,
     sites |-> IF reset THEN site_table_reset(sites) ELSE sites,
     mutations |-> IF reset THEN mutation_table_reset(mutations) ELSE mutations]

simplifier_alloc_tail(f, sites, mutations) ==
    IF f.ret /= 0
    THEN simplifier_alloc_result(f, sites, mutations, FALSE)
    ELSE simplifier_alloc_result(simplifier_alloc_counts(f), sites, mutations, TRUE)

\* simplifier_alloc: [ret, ok, self, nodes, sites, mutations]
simplifier_alloc(nodes, edgesets, sites, mutations, samples, num_samples, sequence_length) ==
    IF num_samples < 2 \/ nodes.num_rows = 0 \/ edgesets.num_rows = 0
    THEN simplifier_alloc_result(
            [Frame(simplifier_zero(samples, num_samples, sequence_length),
                   nodes, edgesets) EXCEPT !.ret = MSP_ERR_BAD_PARAM_VALUE],
            sites, mutations, FALSE)
    ELSE IF nodes.max_total_name_length = 0
    THEN \* nodes->name is NULL and nodes->name_length is not:
         \* node_table_set_columns refuses the pair
         simplifier_alloc_result(
            [Frame([simplifier_zero(samples, num_samples, sequence_length)
                       EXCEPT !.input_nodes = node_table_alloc(nodes.num_rows,
                                  nodes.total_name_length + 1)],
                   nodes, edgesets) EXCEPT !.ret = MSP_ERR_BAD_PARAM_VALUE],
            sites, mutations, FALSE)
    ELSE simplifier_alloc_tail(
            simplifier_alloc_samples(
                Frame(simplifier_alloc_maps(
                          simplifier_zero(samples, num_samples, sequence_length),
                          node_table_set_columns(
                              node_table_alloc(nodes.num_rows,
                                               nodes.total_name_length + 1),
                              nodes.num_rows, nodes.flags, nodes.time,
                              nodes.population, nodes.name, nodes.name_length)),
                      node_table_reset(nodes), edgesets),
                0),
            sites, mutations)

\* ------------------------------------------------------------ merge queue
\* cmp_segment_queue that compares the left coordinates only
cmp_segment_queue_left(a, b) ==
    IF a.left /= b.left THEN (IF a.left > b.left THEN 1 ELSE -1)
    ELSE 0

\* cmp_segment_queue: -1, 0 or 1 on the keys (left, node)
cmp_segment_queue(a, b) ==
    IF a.left /= b.left THEN (IF a.left > b.left THEN 1 ELSE -1)
    ELSE IF a.node /= b.node THEN (IF a.node > b.node THEN 1 ELSE -1)
    ELSE 0

\* avl_insert_node finds the key of u in the queue
queue_has_key(self, u) ==
    \E q \in self.merge_queue :
        cmp_segment_queue(self.segment_mem[q], self.segment_mem[u]) = 0

\* An avl node is taken from the pool; avl_insert_node refuses a key that
\* is present, which the assertion node != NULL rules out.
simplifier_priority_queue_insert(f, u) ==
    [f EXCEPT !.self.num_avl_nodes = @ + 1,
              !.self.merge_queue = IF queue_has_key(f.self, u) THEN @ ELSE @ \cup {u},
              !.ok = @ /\ ~queue_has_key(f.self, u)]

\* Q->head: the least element of the queue
queue_head(mem, Q) ==
    CHOOSE q \in Q : \A p \in Q : cmp_segment_queue(mem[q], mem[p]) <= 0

\* the elements of S in queue order
RECURSIVE queue_order(_, _)
queue_order(mem, S) ==
    IF S = {} THEN <<>>
    ELSE <<queue_head(mem, S)>> \o queue_order(mem, S \ {queue_head(mem, S)})

\* --------------------------------------------------------- remove_ancestry
\* Skip the leading segments before left
RECURSIVE remove_ancestry_skip_leading(_, _)
remove_ancestry_skip_leading(f, left) ==
    IF f.x /= NULL /\ f.self.segment_mem[f.x].right <= left
    THEN remove_ancestry_skip_leading(
            [f EXCEPT !.last = f.x, !.x = f.self.segment_mem[f.x].next], left)
    ELSE f

\* the new segment f.seg for the excess on the left is linked in
remove_ancestry_link_left(f, left) ==
    [f EXCEPT !.self.segment_mem =
                  IF f.last /= NULL
                  THEN [@ EXCEPT ![f.x].left = left, ![f.last].next = f.seg]
                  ELSE [@ EXCEPT ![f.x].left = left],
              !.last = f.seg,
              !.head = IF f.x = f.head THEN f.seg ELSE @]

\* The left edge of x overhangs. Insert a new segment for the excess.
remove_ancestry_overhang_left(f, left) ==
    IF f.x /= NULL /\ f.self.segment_mem[f.x].left < left
    THEN remove_ancestry_link_left(
            simplifier_alloc_segment(f, f.self.segment_mem[f.x].left, left,
                                     f.self.segment_mem[f.x].node, NULL),
            left)
    ELSE f

\* Skip over segments strictly within the target interval
RECURSIVE remove_ancestry_skip_within(_, _)
remove_ancestry_skip_within(f, right) ==
    IF f.x /= NULL /\ f.self.segment_mem[f.x].right <= right
    THEN remove_ancestry_skip_within(
            [f EXCEPT !.x_prev = f.x, !.x = f.self.segment_mem[f.x].next], right)
    ELSE f

\* cut_right that does not shorten x to the interval
remove_ancestry_cut_right_uncut(f, right) ==
    [f EXCEPT !.self.segment_mem[f.x].next = NULL,
              !.x = f.seg]

\* the new segment f.seg is the overhang; x ends the output chain
remove_ancestry_cut_right(f, right) ==
    [f EXCEPT !.self.segment_mem[f.x].right = right,
              !.self.segment_mem[f.x].next = NULL,
              !.x = f.seg]

\* We have an overhang on the right hand side: create a new segment for the
\* overhang and terminate the output chain; else terminate it at x_prev.
remove_ancestry_overhang_right(f, right) ==
    IF f.x /= NULL /\ f.self.segment_mem[f.x].left < right
    THEN remove_ancestry_cut_right(
            simplifier_alloc_segment(f, right, f.self.segment_mem[f.x].right,
                f.self.segment_mem[f.x].node, f.self.segment_mem[f.x].next),
            right)
    ELSE IF f.x_prev /= NULL
    THEN [f EXCEPT !.self.segment_mem[f.x_prev].next = NULL]
    ELSE f

\* x is the first segment within the target interval, so add it to the queue
remove_ancestry_inside(f, right) ==
    IF f.x /= NULL /\ f.self.segment_mem[f.x].left < right
    THEN remove_ancestry_overhang_right(
            remove_ancestry_skip_within(
                simplifier_priority_queue_insert(f, f.x), right),
            right)
    ELSE f

\* x is the first segment in the new chain starting after right
remove_ancestry_relink(f, input_id) ==
    [f EXCEPT !.self.segment_mem =
                  IF f.last = NULL THEN @ ELSE [@ EXCEPT ![f.last].next = f.x],
              !.self.ancestor_map[input_id + 1] =
                  IF f.last = NULL THEN f.x ELSE f.head]

simplifier_remove_ancestry(f, left, right, input_id) ==
    remove_ancestry_relink(
        remove_ancestry_inside(
            remove_ancestry_overhang_left(
                remove_ancestry_skip_leading(
                    [f EXCEPT !.x = f.self.ancestor_map[input_id + 1],
                              !.head = f.self.ancestor_map[input_id + 1],
                              !.last = NULL, !.x_prev = NULL],
                    left),
                left),
            right),
        input_id)

\* ---------------------------------------------------------- squash buffer
\* the children buffer and the buffer of the last edgeset grow together
simplifier_get_children_buffer(f, num_children) ==
    IF f.self.children_buffer_size < num_children
    THEN [f EXCEPT !.self.children_buffer_size = num_children,
                   !.self.last_edgeset.children = expand_column(@, num_children)]
    ELSE f

\* the edgeset becomes the buffered one
record_edgeset_store(f, left, right, parent, children, children_length) ==
    [f EXCEPT !.self.last_edgeset.left = left,
              !.self.last_edgeset.right = right,
              !.self.last_edgeset.parent = parent,
              !.self.last_edgeset.children_length = children_length,
              !.self.last_edgeset.children = Memcpy(@, 0, children)]

\* the squash test without parent == last_edgeset.parent
record_edgeset_squash_any_parent(last, left, parent, children, children_length) ==
    /\ last.children_length = children_length
    /\ left = last.right
    /\ children = Slice(last.children, 0, children_length)

\* the edgeset continues the buffered one
record_edgeset_squash(last, left, parent, children, children_length) ==
    /\ last.children_length = children_length
    /\ left = last.right
    /\ parent = last.parent
    /\ children = Slice(last.children, 0, children_length)

\* Flush the last edgeset (a is what edgeset_table_add_row returned)
record_edgeset_flush(f, a, left, right, parent, children, children_length) ==
    IF a.ret /= 0
    THEN [f EXCEPT !.edgesets = a.t, !.ret = a.ret]
    ELSE record_edgeset_store([f EXCEPT !.edgesets = a.t, !.ret = 0],
                              left, right, parent, children, children_length)

\* record_edgeset that writes the new edgeset to the table when it does not
\* continue the buffered one, and keeps the buffer
record_edgeset_sorted_direct(f, left, right, parent, children, children_length) ==
    IF f.self.last_edgeset.children_length = 0
    THEN record_edgeset_store([f EXCEPT !.ret = 0], left, right, parent, children,
                              children_length)
    ELSE IF record_edgeset_squash(f.self.last_edgeset, left, parent, children,
                                  children_length)
    THEN [f EXCEPT !.self.last_edgeset.right = right, !.ret = 0]
    ELSE [f EXCEPT !.edgesets = edgeset_table_add_row(@, left, right, parent,
                                    children, children_length).t,
                   !.ret = 0]

\* simplifier_record_edgeset after the qsort of the children
record_edgeset_sorted(f, left, right, parent, children, children_length) ==
    IF f.self.last_edgeset.children_length = 0
    THEN record_edgeset_store([f EXCEPT !.ret = 0], left, right, parent, children,
                              children_length)
    ELSE IF record_edgeset_squash(f.self.last_edgeset, left, parent, children,
                                  children_length)
    THEN [f EXCEPT !.self.last_edgeset.right = right, !.ret = 0]
    ELSE record_edgeset_flush(f,
            edgeset_table_add_row(f.edgesets, f.self.last_edgeset.left,
                f.self.last_edgeset.right, f.self.last_edgeset.parent,
                f.self.last_edgeset.children,
                f.self.last_edgeset.children_length),
            left, right, parent, children, children_length)

\* Records the specified edgeset in the output table
simplifier_record_edgeset(f, left, right, parent, children, children_length) ==
    record_edgeset_sorted(f, left, right, parent, qsort_node_id(children),
                          children_length)

\* ---------------------------------------------------------- overlap counts
\* node->next in the overlap-count map: the least start above x
overlap_next(oc, x) ==
    CHOOSE y \in DOMAIN oc : y > x /\ \A w \in DOMAIN oc : w > x => y <= w

\* nm->count -= h - 1 on uint32_t.  A count is held as the two's complement
\* reading of its 32 bits, on which == and - agree with the unsigned ones: a
\* negative value n stands for the wrapped count 2^32 + n.
uint32_sub(count, d) == count - d

\* while (nm->count != h && r < r_max) { nm->count -= h - 1; node = node->next;
\* nm = node->item; r = nm->start; }
RECURSIVE overlap_walk(_, _)
overlap_walk(f, h) ==
    IF f.self.overlap_counts[f.r] /= h /\ f.r < f.r_max
    THEN overlap_walk(
            [f EXCEPT !.self.overlap_counts[f.r] = uint32_sub(@, h - 1),
                      !.r = overlap_next(f.self.overlap_counts, f.r)],
            h)
    ELSE f

\* --------------------------------------------------------- merge_ancestors
\* the least right end of the segments of H, capped by the sequence length
merge_r_max(mem, H, sequence_length) ==
    CHOOSE a \in {sequence_length} \cup {mem[H[i]].right : i \in 1..Len(H)} :
        \A i \in 1..Len(H) : a <= mem[H[i]].right /\ a <= sequence_length

\* l = Q->head->left; the heads with left = l go to H, their avl nodes are
\* freed and unlinked; r_max is the least right end of H
merge_batch_take(f, l) ==
    [f EXCEPT !.l = l,
              !.H = queue_order(f.self.segment_mem,
                        {q \in f.self.merge_queue : f.self.segment_mem[q].left = l}),
              !.self.merge_queue = {q \in @ : f.self.segment_mem[q].left /= l},
              !.alpha = NULL, !.emit = <<>>]

\* merge_batch_next that leaves the avl nodes of the batch allocated
merge_batch_next_kept(f, node) ==
    [f EXCEPT !.node = node,
              !.next_l = IF node /= NULL THEN f.self.segment_mem[node].left ELSE 0,
              !.r_max =
                  IF node /= NULL
                  THEN GSL_MIN(merge_r_max(f.self.segment_mem, f.H,
                                           f.self.sequence_length),
                               f.self.segment_mem[node].left)
                  ELSE merge_r_max(f.self.segment_mem, f.H, f.self.sequence_length)]

\* node is what follows the batch in the queue; next_l its left end
merge_batch_next(f, node) ==
    [f EXCEPT !.self.num_avl_nodes = @ - Len(f.H),
              !.node = node,
              !.next_l = IF node /= NULL THEN f.self.segment_mem[node].left ELSE 0,
              !.r_max =
                  IF node /= NULL
                  THEN GSL_MIN(merge_r_max(f.self.segment_mem, f.H,
                                           f.self.sequence_length),
                               f.self.segment_mem[node].left)
                  ELSE merge_r_max(f.self.segment_mem, f.H, f.self.sequence_length)]

merge_batch_rest(f) ==
    merge_batch_next(f,
        IF f.self.merge_queue = {} THEN NULL
        ELSE queue_head(f.self.segment_mem, f.self.merge_queue))

merge_batch(f) ==
    merge_batch_rest(
        merge_batch_take(f,
            f.self.segment_mem[
                queue_head(f.self.segment_mem, f.self.merge_queue)].left))

\* if (x != NULL) simplifier_priority_queue_insert(self, Q, x)
merge_insert(f, x) ==
    IF x /= NULL THEN simplifier_priority_queue_insert(f, x) ELSE f

\* merge_single_split without x->left = next_l: the remainder is queued
\* again from its old left end
merge_single_split_stale(f) ==
    merge_insert([f EXCEPT !.alpha = f.seg], f.H[1])

\* h == 1, the segment overlaps what follows in the queue: alpha (f.seg) is
\* its part up to next_l
merge_single_split(f) ==
    merge_insert(
        [f EXCEPT !.alpha = f.seg,
                  !.self.segment_mem[f.H[1]].left = f.next_l],
        f.H[1])

\* h == 1 otherwise: alpha is the segment, cut off its chain
merge_single_pass(f) ==
    merge_insert(
        [f EXCEPT !.alpha = f.H[1],
                  !.self.segment_mem[f.H[1]].next = NULL],
        f.self.segment_mem[f.H[1]].next)

merge_single(f) ==
    IF f.node /= NULL /\ f.next_l < f.self.segment_mem[f.H[1]].right
    THEN merge_single_split(
            simplifier_alloc_segment(f, f.self.segment_mem[f.H[1]].left, f.next_l,
                                     f.self.segment_mem[f.H[1]].node, NULL))
    ELSE merge_single_pass(f)

\* merge_coalesce_node without the test of coalescence: a node is recorded
\* at every batch
merge_coalesce_node_always(f, input_id) ==
    simplifier_record_node([f EXCEPT !.coalescence = TRUE], input_id)

\* if (!coalescence) { coalescence = 1; record_node }; v = num_rows - 1
merge_coalesce_node(f, input_id) ==
    IF f.coalescence THEN f
    ELSE simplifier_record_node([f EXCEPT !.coalescence = TRUE], input_id)

\* v = num_rows, one past the node recorded
merge_coalesce_v_past(f) == [f EXCEPT !.v = f.nodes.num_rows]

merge_coalesce_v(f) == [f EXCEPT !.v = f.nodes.num_rows - 1]

\* Insert overlap counts for bounds, if necessary
merge_coalesce_bound(f, x) ==
    IF x \in DOMAIN f.self.overlap_counts THEN f
    ELSE simplifier_copy_overlap_count(f, x)

merge_set_alpha(f) == [f EXCEPT !.alpha = f.seg]

\* alpha = simplifier_alloc_segment(self, l, r, v, NULL)
merge_alloc_alpha(f) ==
    merge_set_alpha(simplifier_alloc_segment(f, f.l, f.r, f.v, NULL))

\* merge_coalesce_counts with alpha allocated also when the interval has
\* coalesced
merge_coalesce_counts_alpha(f, h) ==
    IF f.self.overlap_counts[f.l] = h
    THEN merge_alloc_alpha([f EXCEPT !.self.overlap_counts[f.l] = 0,
                                     !.r = overlap_next(f.self.overlap_counts, f.l),
                                     !.full = TRUE])
    ELSE merge_alloc_alpha(overlap_walk([f EXCEPT !.r = f.l, !.full = FALSE], h))

\* Update the extant segments and allocate alpha if the interval has not
\* coalesced
merge_coalesce_counts(f, h) ==
    IF f.self.overlap_counts[f.l] = h
    THEN [f EXCEPT !.self.overlap_counts[f.l] = 0,
                   !.r = overlap_next(f.self.overlap_counts, f.l),
                   !.full = TRUE]
    ELSE merge_alloc_alpha(overlap_walk([f EXCEPT !.r = f.l, !.full = FALSE], h))

\* merge_requeue_one without x->left = r: a head that reaches past r is
\* queued again from its old left end
merge_requeue_one_stale(f, x) ==
    IF f.self.segment_mem[x].right = f.r
    THEN merge_insert(simplifier_free_segment(f, x), f.self.segment_mem[x].next)
    ELSE merge_insert(f, x)

\* the body of for (j = 0; j < h; j++) for x = H[j]
merge_requeue_one(f, x) ==
    IF f.self.segment_mem[x].right = f.r
    THEN merge_insert(simplifier_free_segment(f, x), f.self.segment_mem[x].next)
    ELSE IF f.self.segment_mem[x].right > f.r
    THEN merge_insert([f EXCEPT !.self.segment_mem[x].left = f.r], x)
    ELSE merge_insert(f, x)

RECURSIVE merge_requeue(_, _)
merge_requeue(f, j) ==
    IF j > Len(f.H) THEN f
    ELSE merge_requeue(merge_requeue_one(f, f.H[j]), j + 1)

\* children[j] = x->node
merge_children(f) == [j \in 1..Len(f.H) |-> f.self.segment_mem[f.H[j]].node]

\* Create the record and update the priority queue
merge_coalesce_record(f, children) ==
    [simplifier_record_edgeset(f, f.l, f.r, f.v, children, Len(children))
        EXCEPT !.emit = <<[left |-> f.l, right |-> f.r, parent |-> f.v,
                           children |-> children, full |-> f.full]>>]

merge_coalesce_emit(f) ==
    merge_coalesce_record(merge_requeue(f, 1), merge_children(f))

merge_coalesce(f, input_id) ==
    merge_coalesce_emit(
        simplifier_get_children_buffer(
            merge_coalesce_counts(
                merge_coalesce_bound(
                    merge_coalesce_bound(
                        merge_coalesce_v(merge_coalesce_node(f, input_id)),
                        f.l),
                    f.r_max),
                Len(f.H)),
            Len(f.H)))

\* Loop tail; integrate alpha into the global state
merge_tail(f, input_id) ==
    IF f.ret /= 0 \/ f.alpha = NULL THEN f
    ELSE IF f.z = NULL
    THEN [f EXCEPT !.self.ancestor_map[input_id + 1] = f.alpha, !.z = f.alpha]
    ELSE [f EXCEPT !.self.segment_mem[f.z].next = f.alpha, !.z = f.alpha]

\* every batch taken for a coalescence, also a batch of one
merge_body_coalesce(f, input_id) == merge_coalesce(f, input_id)

merge_body(f, input_id) ==
    IF Len(f.H) = 1 THEN merge_single(f) ELSE merge_coalesce(f, input_id)

\* One pass of the loop while (avl_count(Q) > 0) of merge_ancestors
merge_iteration(f, input_id) ==
    merge_tail(merge_body(merge_batch(f), input_id), input_id)

\* ------------------------------------------------------------- check_state
\* the segments of the chain starting at head, in order (a chain is finite)
RECURSIVE chain(_, _)
chain(mem, head) ==
    IF head = NULL THEN <<>> ELSE <<head>> \o chain(mem, mem[head].next)

\* the two assertions check_state makes on every segment of the chain c
segments_ordered(mem, c) ==
    \A i \in 1..Len(c) :
        /\ mem[c[i]].left < mem[c[i]].right
        /\ (i < Len(c) => mem[c[i]].right <= mem[c[i + 1]].left)

chain_ordered(mem, head) == segments_ordered(mem, chain(mem, head))

\* the heads of the chains check_state walks: the ancestor map, then the queue
chain_heads(self) ==
    self.ancestor_map \o queue_order(self.segment_mem, self.merge_queue)

chain_lengths(mem, heads) ==
    [i \in 1..Len(heads) |-> Len(chain(mem, heads[i]))]

\* total_segments of check_state: segments counted chain by chain
total_segments(self) ==
    SumSeq(chain_lengths(self.segment_mem, chain_heads(self)))

\* TRUE when every assertion of simplifier_check_state holds
simplifier_check_state(self) ==
    /\ \A j \in 1..Len(self.ancestor_map) :
          chain_ordered(self.segment_mem, self.ancestor_map[j])
    /\ \A q \in self.merge_queue : chain_ordered(self.segment_mem, q)
    /\ total_segments(self) = Cardinality(self.segment_used)
    /\ Cardinality(self.merge_queue) + Cardinality(DOMAIN self.overlap_counts)
          = self.num_avl_nodes

\* ------------------------------------------------------------------ state
VARIABLES
    nodes,      \* the caller's node table, rewritten as the output
    edgesets,   \* the caller's edgeset table, read and rewritten in place
    sites,      \* the caller's site table
    mutations,  \* the caller's mutation table
    samples,    \* the samples argument of simplifier_alloc
    self,       \* the simplifier_t; the table_sorter_t in SortSpec; the
                \* migration table in TableSpec
    run,        \* the locals of simplifier_run and of the merge in progress;
                \* the number of calls made in TableSpec
    pc,         \* where the caller is
    ret,        \* the last return code
    input,      \* the tables as they were before simplifier_alloc or
                \* sort_tables; the last call made in TableSpec
    emitted     \* the edgesets handed to simplifier_record_edgeset so far;
                \* the reads outside a column in SortSpec

vars == <<nodes, edgesets, sites, mutations, samples, self, run, pc, ret,
          input, emitted>>

run_zero ==
    [num_input_edgesets |-> 0, children_offset |-> 0, j |-> 0, k |-> 0,
     current_parent |-> 0, parent |-> 0, left |-> 0, right |-> 0,
     children_length |-> 0, children |-> 0,
     merge_id |-> 0, z |-> NULL, coalescence |-> FALSE, after |-> "none"]

\* ------------------------------------------------------------- the inputs
\* Node times over n nodes: larger is older.  Only the order of times
\* matters to the code, so times rise with the id in steps of at most one;
\* the two first nodes are leaves of time 0 and the last node is older.
TimePatterns(n) ==
    {t \in [0..(n - 1) -> 0..MaxTime] :
        /\ t[0] = 0 /\ t[1] = 0 /\ t[n - 1] >= 1
        /\ \A i \in 0..(n - 2) : t[i] <= t[i + 1] /\ t[i + 1] <= t[i] + 1}

\* the name and population a node is given: they differ from node to node
NameOf(i) == [c \in 1..(i % 3) |-> 10 * i + c]
PopulationOf(i) == (i % 2) - 1

\* the first k nodes carry the IS_SAMPLE flag
FlagsOf(k, i) == IF i < k THEN MSP_NODE_IS_SAMPLE ELSE 0

\* the node table the caller fills with node_table_add_row
RECURSIVE BuildNodes(_, _, _)
BuildNodes(tp, k, n) ==
    IF n = 0 THEN node_table_alloc(RowIncrement, PayloadIncrement)
    ELSE node_table_add_row(BuildNodes(tp, k, n - 1), FlagsOf(k, n - 1),
                            tp[n - 1], PopulationOf(n - 1), NameOf(n - 1))

\* the edgeset table the caller fills with edgeset_table_add_row
RECURSIVE BuildEdgesets(_, _)
BuildEdgesets(rows, n) ==
    IF n = 0 THEN edgeset_table_alloc(RowIncrement, PayloadIncrement)
    ELSE edgeset_table_add_row(BuildEdgesets(rows, n - 1), rows[n].left,
             rows[n].right, rows[n].parent, rows[n].children,
             Len(rows[n].children)).t

RECURSIVE SortedSeqOf(_)
SortedSeqOf(S) ==
    IF S = {} THEN <<>>
    ELSE LET m == CHOOSE a \in S : \A b \in S : a <= b
         IN <<m>> \o SortedSeqOf(S \ {m})

\* The edgesets a genealogy over the nodes can hold: an interval inside
\* [0, SeqLen), a parent, and between one and MaxChildren children younger
\* than the parent, sorted by id.
RowsOf(tp) ==
    LET ids == DOMAIN tp
    IN {[left |-> l, right |-> r, parent |-> p, children |-> SortedSeqOf(C)] :
           l \in 0..(SeqLen - 1), r \in 1..SeqLen, p \in ids,
           C \in {D \in SUBSET ids : Cardinality(D) \in 1..MaxChildren}}

ValidRow(tp, row) ==
    /\ row.left < row.right
    /\ \A i \in 1..Len(row.children) : tp[row.children[i]] < tp[row.parent]

\* a node has at most one parent at a position
Compatible(a, b) ==
    \/ a.right <= b.left \/ b.right <= a.left
    \/ Range(a.children) \cap Range(b.children) = {}

\* the order the table sorter establishes: (parent time, parent, left)
RowLeq(tp, a, b) ==
    \/ tp[a.parent] < tp[b.parent]
    \/ /\ tp[a.parent] = tp[b.parent]
       /\ \/ a.parent < b.parent
          \/ a.parent = b.parent /\ a.left <= b.left

\* the sequences of exactly n compatible rows of R; only those in sorted
\* order when sorted is TRUE
RECURSIVE RowSeqsOfLen(_, _, _, _)
RowSeqsOfLen(tp, R, n, sorted) ==
    IF n = 0 THEN {<<>>}
    ELSE UNION {
            {Append(q, row) : row \in {w \in R :
                 /\ \A i \in 1..Len(q) : Compatible(q[i], w)
                 /\ (sorted /\ Len(q) > 0) => RowLeq(tp, q[Len(q)], w)}}
            : q \in RowSeqsOfLen(tp, R, n - 1, sorted)}

\* the sequences of at most n such rows
RowSeqs(tp, R, n, sorted) ==
    UNION {RowSeqsOfLen(tp, R, m, sorted) : m \in 0..n}

\* the samples lists given: the flagged nodes in ascending and in descending order
SampleLists(k) ==
    {[i \in 1..k |-> i - 1], [i \in 1..k |-> k - i]}

InitSites ==
    [max_rows_increment |-> RowIncrement, max_rows |-> RowIncrement, num_rows |-> 1,
     max_total_ancestral_state_length_increment |-> PayloadIncrement,
     max_total_ancestral_state_length |-> PayloadIncrement,
     total_ancestral_state_length |-> 1,
     position |-> [i \in 1..RowIncrement |-> IF i = 1 THEN 0 ELSE Junk],
     ancestral_state_length |-> [i \in 1..RowIncrement |-> IF i = 1 THEN 1 ELSE Junk],
     ancestral_state |-> [i \in 1..PayloadIncrement |-> IF i = 1 THEN 48 ELSE Junk]]

InitMutations ==
    [max_rows_increment |-> RowIncrement, max_rows |-> RowIncrement, num_rows |-> 1,
     max_total_derived_state_length_increment |-> PayloadIncrement,
     max_total_derived_state_length |-> PayloadIncrement,
     total_derived_state_length |-> 1,
     site |-> [i \in 1..RowIncrement |-> IF i = 1 THEN 0 ELSE Junk],
     node |-> [i \in 1..RowIncrement |-> IF i = 1 THEN 0 ELSE Junk],
     derived_state_length |-> [i \in 1..RowIncrement |-> IF i = 1 THEN 1 ELSE Junk],
     derived_state |-> [i \in 1..PayloadIncrement |-> IF i = 1 THEN 49 ELSE Junk]]

InitWith(tp, k, rows, smp) ==
    /\ nodes = BuildNodes(tp, k, Cardinality(DOMAIN tp))
    /\ edgesets = BuildEdgesets(rows, Len(rows))
    /\ sites = InitSites
    /\ mutations = InitMutations
    /\ samples = smp
    /\ self = simplifier_zero(<<>>, 0, 0)
    /\ run = run_zero
    /\ pc = "init"
    /\ ret = 0
    /\ input = [time |-> tp, flagged |-> k, rows |-> rows,
                 nodes |-> BuildNodes(tp, k, Cardinality(DOMAIN tp)),
                 edgesets |-> BuildEdgesets(rows, Len(rows))]
    /\ emitted = <<>>

\* Every genealogy of at most MaxRows - 1 rows over NumNodes - 1 nodes, its
\* rows in any order, two or more of the nodes flagged as samples (an older
\* node among them or not), the samples given in either order.
InitWide ==
    \E tp \in TimePatterns(NumNodes - 1), k \in 2..MaxSamples :
    \E rows \in RowSeqs(tp, {row \in RowsOf(tp) : ValidRow(tp, row)},
                        MaxRows - 1, FALSE) :
    \E smp \in SampleLists(k) :
        InitWith(tp, k, rows, smp)

\* MaxSamples leaf samples under a tower of older nodes (NumNodes nodes in
\* all), at most MaxRows rows as the table sorter leaves them.
DeepTimes ==
    [i \in 0..(NumNodes - 1) |-> IF i < MaxSamples THEN 0 ELSE i - MaxSamples + 1]

InitDeep ==
    \E rows \in RowSeqs(DeepTimes, {row \in RowsOf(DeepTimes) : ValidRow(DeepTimes, row)},
                        MaxRows, TRUE) :
        InitWith(DeepTimes, MaxSamples, rows, [i \in 1..MaxSamples |-> i - 1])

\* What simplifier_alloc must refuse: an empty or a three-node table, no
\* row or one row, and every samples list of at most MaxSamples entries over
\* the ids -1 .. 3 (ids out of bounds, nodes not flagged, duplicates, fewer
\* than two samples).  Node 2 is older and not flagged.
BadTimes == [i \in 0..2 |-> IF i < 2 THEN 0 ELSE 1]

BadSampleLists == UNION {[1..n -> -1..3] : n \in 0..MaxSamples}

InitBad ==
    \E tp \in {<<>>, BadTimes} :
    \E rows \in {<<>>, <<[left |-> 0, right |-> SeqLen, parent |-> 2,
                         children |-> <<0, 1>>]>>} :
    \E smp \in BadSampleLists :
        InitWith(tp, 2, rows, smp)

Init == InitWide \/ InitDeep \/ InitBad

\* ---------------------------------------------------------------- actions
\* A failed assertion ends the process in a build that keeps assertions and
\* is skipped in a build with NDEBUG: both outcomes are offered.
Abort ==
    /\ pc' = "aborted"
    /\ UNCHANGED <<nodes, edgesets, sites, mutations, samples, self, run, ret,
                   input, emitted>>

\* the caller's state after simplifier_alloc returned a
SimplifierAllocTo(a) ==
    \/ /\ ~a.ok
       /\ Abort
    \/ /\ nodes' = a.nodes
       /\ sites' = a.sites
       /\ mutations' = a.mutations
       /\ self' = a.self
       /\ ret' = a.ret
       /\ pc' = IF a.ret = 0 THEN "allocated" ELSE "alloc_failed"
       /\ UNCHANGED <<edgesets, samples, run, input, emitted>>

\* simplifier_alloc(self, nodes, edgesets, NULL, sites, mutations, samples,
\*                  num_samples, sequence_length, flags)
SimplifierAlloc ==
    /\ pc = "init"
    /\ SimplifierAllocTo(simplifier_alloc(nodes, edgesets, sites, mutations,
                                          samples, Len(samples), SeqLen))

\* simplifier_run up to the loop over the input rows
RunStart ==
    /\ pc = "allocated"
    /\ edgesets' = edgeset_table_reset(edgesets)
    /\ run' = [run_zero EXCEPT !.num_input_edgesets = edgesets.num_rows,
                               !.current_parent = edgesets.parent[1]]
    /\ pc' = "row"
    /\ UNCHANGED <<nodes, sites, mutations, samples, self, ret, input, emitted>>

\* the locals of simplifier_run after row j was read
run_read_row(r, t) ==
    [r EXCEPT !.parent = t.parent[r.j + 1],
              !.left = t.left[r.j + 1],
              !.right = t.right[r.j + 1],
              !.children_length = t.children_length[r.j + 1],
              !.children = r.children_offset,
              !.children_offset = @ + t.children_length[r.j + 1],
              !.k = 0]

\* simplifier_merge_ancestors(self, current_parent) is entered
run_enter_merge(r, after) ==
    [r EXCEPT !.merge_id = r.current_parent, !.z = NULL,
              !.coalescence = FALSE, !.after = after]

\* row is read: a change of parent starts the merge of the group read
RunRowTo(row) ==
    \/ /\ ~(/\ run.j >= edgesets.num_rows
            /\ (row.parent /= run.current_parent => simplifier_check_state(self)))
       /\ Abort
    \/ /\ run' = IF row.parent /= run.current_parent
                 THEN run_enter_merge(row, "time") ELSE row
       /\ pc' = IF row.parent /= run.current_parent THEN "merge" ELSE "child"
       /\ UNCHANGED <<nodes, edgesets, sites, mutations, samples, self, ret,
                      input, emitted>>

\* The head of the loop body for row j: the row is read from the table
\* being rewritten.  After the last row the merge of the last group starts.
RunRow ==
    /\ pc = "row"
    /\ IF run.j = run.num_input_edgesets
       THEN /\ run' = run_enter_merge(run, "final")
            /\ pc' = "merge"
            /\ UNCHANGED <<nodes, edgesets, sites, mutations, samples, self, ret,
                           input, emitted>>
       ELSE RunRowTo(run_read_row(run, edgesets))

\* the edgeset handed to record_edgeset, with the input node merged
emitted_by(emit, input_id) ==
    [i \in 1..Len(emit) |->
        [left |-> emit[i].left, right |-> emit[i].right,
         parent |-> emit[i].parent, children |-> emit[i].children,
         full |-> emit[i].full, input_id |-> input_id]]

\* the state after the pass that ended with frame m
MergeStepTo(m) ==
    \/ /\ ~m.ok
       /\ Abort
    \/ /\ self' = m.self
       /\ nodes' = m.nodes
       /\ edgesets' = m.edgesets
       /\ run' = [run EXCEPT !.z = m.z, !.coalescence = m.coalescence]
       /\ emitted' = emitted \o emitted_by(m.emit, run.merge_id)
       /\ ret' = m.ret
       /\ pc' = IF m.ret /= 0 THEN "done" ELSE "merge"
       /\ UNCHANGED <<sites, mutations, samples, input>>

\* one pass of the loop of simplifier_merge_ancestors(self, merge_id)
MergeStep ==
    /\ pc = "merge"
    /\ self.merge_queue /= {}
    /\ MergeStepTo(merge_iteration(
            [Frame(self, nodes, edgesets) EXCEPT !.z = run.z,
                                                 !.coalescence = run.coalescence],
            run.merge_id))

\* the test with its operands exchanged
records_not_time_sorted_swapped(input_nodes, current_parent, parent) ==
    input_nodes.time[parent + 1] > input_nodes.time[current_parent + 1]

\* input_nodes.time[current_parent] > input_nodes.time[parent]
records_not_time_sorted(input_nodes, current_parent, parent) ==
    input_nodes.time[current_parent + 1] > input_nodes.time[parent + 1]

\* simplifier_merge_ancestors returns 0 with the queue empty; between two
\* groups the parent times are compared, after the last group the state is
\* checked.
MergeReturn ==
    /\ pc = "merge"
    /\ self.merge_queue = {}
    /\ IF run.after = "time"
       THEN IF records_not_time_sorted(self.input_nodes, run.current_parent,
                                       run.parent)
            THEN /\ ret' = MSP_ERR_RECORDS_NOT_TIME_SORTED
                 /\ pc' = "done"
                 /\ UNCHANGED <<nodes, edgesets, sites, mutations, samples, self,
                                run, input, emitted>>
            ELSE /\ run' = [run EXCEPT !.current_parent = run.parent]
                 /\ ret' = 0
                 /\ pc' = "child"
                 /\ UNCHANGED <<nodes, edgesets, sites, mutations, samples, self,
                                input, emitted>>
       ELSE \/ /\ ~simplifier_check_state(self)
               /\ Abort
            \/ /\ ret' = 0
               /\ pc' = "flush"
               /\ UNCHANGED <<nodes, edgesets, sites, mutations, samples, self,
                              run, input, emitted>>

\* the state after simplifier_remove_ancestry ended with frame a
RemoveAncestryTo(a) ==
    \/ /\ \/ ~simplifier_check_state(self)
          \/ ~a.ok
          \/ ~simplifier_check_state(a.self)
       /\ Abort
    \/ /\ self' = a.self
       /\ run' = [run EXCEPT !.k = run.k + 1]
       /\ UNCHANGED <<nodes, edgesets, sites, mutations, samples, ret, pc,
                      input, emitted>>

\* children[k] of the row read
RemoveAncestryOf(child) ==
    IF child \notin 0..(self.input_nodes.num_rows - 1)
    THEN \* ancestor_map is indexed out of bounds
         Abort
    ELSE IF self.ancestor_map[child + 1] = NULL
    THEN /\ run' = [run EXCEPT !.k = run.k + 1]
         /\ UNCHANGED <<nodes, edgesets, sites, mutations, samples, self, ret,
                        pc, input, emitted>>
    ELSE RemoveAncestryTo(
            simplifier_remove_ancestry(Frame(self, nodes, edgesets), run.left,
                                       run.right, child))

\* The loop over the children of row j: a child with ancestry has the
\* interval of the row removed from its chain.  After the last child the
\* next row is due.
RemoveAncestry ==
    /\ pc = "child"
    /\ IF run.k = run.children_length
       THEN /\ run' = [run EXCEPT !.j = run.j + 1]
            /\ pc' = "row"
            /\ UNCHANGED <<nodes, edgesets, sites, mutations, samples, self, ret,
                           input, emitted>>
       ELSE RemoveAncestryOf(edgesets.children[run.children + run.k + 1])

\* the state after the last edgeset_table_add_row returned a
FlushLastTo(a) ==
    /\ edgesets' = a.t
    /\ ret' = a.ret
    /\ pc' = "done"
    /\ UNCHANGED <<nodes, sites, mutations, samples, self, run, input, emitted>>

\* Flush the last edgeset: the end of simplifier_run
FlushLast ==
    /\ pc = "flush"
    /\ FlushLastTo(edgeset_table_add_row(edgesets, self.last_edgeset.left,
           self.last_edgeset.right, self.last_edgeset.parent,
           self.last_edgeset.children, self.last_edgeset.children_length))

Next ==
    \/ SimplifierAlloc
    \/ RunStart
    \/ RunRow
    \/ RemoveAncestry
    \/ MergeStep
    \/ MergeReturn
    \/ FlushLast

Spec == Init /\ [][Next]_vars

\* ------------------------------------------------------ reading the tables
\* row j (from 0) of a node table
node_row(t, j) ==
    [flags |-> t.flags[j + 1], time |-> t.time[j + 1],
     population |-> t.population[j + 1],
     name |-> Slice(t.name, SumSeq(Slice(t.name_length, 0, j)), t.name_length[j + 1])]

\* row j (from 0) of an edgeset table
edgeset_row(t, j) ==
    [left |-> t.left[j + 1], right |-> t.right[j + 1], parent |-> t.parent[j + 1],
     children |-> Slice(t.children, SumSeq(Slice(t.children_length, 0, j)),
                        t.children_length[j + 1])]

\* simplifier_run returned 0
RunSucceeded == pc = "done" /\ ret = 0

\* simplifier_alloc returned 0 and simplifier_run has not failed an assertion
Running == pc \in {"allocated", "row", "child", "merge", "flush", "done"}

\* ----------------------------------------------------------------- claims
\* C10: at every step of simplifier_run (after simplifier_alloc, after each
\* remove_ancestry, during and after each merge_ancestors) every segment
\* chain held in the ancestor map or in the merge queue has left < right in
\* each segment and right <= next.left in each linked pair.
C10_ChainsOrdered ==
    Running =>
        \A head \in Range(self.ancestor_map) \cup self.merge_queue :
            \A i \in 1..Len(chain(self.segment_mem, head)) :
                /\ self.segment_mem[chain(self.segment_mem, head)[i]].left
                      < self.segment_mem[chain(self.segment_mem, head)[i]].right
                /\ self.segment_mem[chain(self.segment_mem, head)[i]].next /= NULL
                      => self.segment_mem[chain(self.segment_mem, head)[i]].right
                            <= self.segment_mem[
                                  self.segment_mem[chain(self.segment_mem, head)[i]].next
                               ].left

\* a chain was split on both sides by remove_ancestry and a merge built a
\* chain of two segments
C10_Witness ==
    /\ pc = "row"
    /\ \E head \in Range(self.ancestor_map) :
          Len(chain(self.segment_mem, head)) >= 2
    /\ Len(emitted) >= 1

\* C9: every row of the output edgeset table after a successful run has
\* left < right, at least two children, the children pairwise distinct and
\* ascending, parent and children below the number of output nodes, and
\* every child below the parent.
C9_OutputRowsValid ==
    RunSucceeded =>
        \A j \in 0..(edgesets.num_rows - 1) :
            /\ edgeset_row(edgesets, j).left < edgeset_row(edgesets, j).right
            /\ Len(edgeset_row(edgesets, j).children) >= 2
            /\ \A a, b \in 1..Len(edgeset_row(edgesets, j).children) :
                  a < b => edgeset_row(edgesets, j).children[a]
                              < edgeset_row(edgesets, j).children[b]
            /\ edgeset_row(edgesets, j).parent \in 0..(nodes.num_rows - 1)
            /\ \A a \in 1..Len(edgeset_row(edgesets, j).children) :
                  /\ edgeset_row(edgesets, j).children[a] \in 0..(nodes.num_rows - 1)
                  /\ edgeset_row(edgesets, j).children[a]
                        < edgeset_row(edgesets, j).parent

\* a successful run that wrote two rows, one of them with three children
C9_Witness ==
    /\ RunSucceeded
    /\ edgesets.num_rows >= 2
    /\ \E j \in 0..(edgesets.num_rows - 1) : edgesets.children_length[j + 1] >= 3

\* C7: after a successful run the output edgeset table is sorted: over
\* consecutive rows (time of the parent in the output node table, parent,
\* left) does not decrease, and within one parent left strictly increases.
C7_OutputSorted ==
    RunSucceeded =>
        \A j \in 0..(edgesets.num_rows - 2) :
            /\ \/ nodes.time[edgesets.parent[j + 1] + 1]
                     < nodes.time[edgesets.parent[j + 2] + 1]
               \/ /\ nodes.time[edgesets.parent[j + 1] + 1]
                        = nodes.time[edgesets.parent[j + 2] + 1]
                  /\ \/ edgesets.parent[j + 1] < edgesets.parent[j + 2]
                     \/ /\ edgesets.parent[j + 1] = edgesets.parent[j + 2]
                        /\ edgesets.left[j + 1] <= edgesets.left[j + 2]
            /\ edgesets.parent[j + 1] = edgesets.parent[j + 2]
                  => edgesets.left[j + 1] < edgesets.left[j + 2]

\* a successful run whose output has two rows of one parent followed by a
\* row of an older parent
C7_Witness ==
    /\ RunSucceeded
    /\ edgesets.num_rows >= 3
    /\ \E j \in 0..(edgesets.num_rows - 2) :
          edgesets.parent[j + 1] = edgesets.parent[j + 2]
    /\ \E j \in 0..(edgesets.num_rows - 2) :
          nodes.time[edgesets.parent[j + 1] + 1]
              < nodes.time[edgesets.parent[j + 2] + 1]

\* the edgeset held in the one-slot buffer of self
Buffered(s) ==
    [left |-> s.last_edgeset.left, right |-> s.last_edgeset.right,
     parent |-> s.last_edgeset.parent,
     children |-> Slice(s.last_edgeset.children, 0, s.last_edgeset.children_length)]

\* the edgeset e as record_edgeset is to keep it: children ascending
Emission(e) ==
    [left |-> e.left, right |-> e.right, parent |-> e.parent,
     children |-> SortedSeqOf(Range(e.children))]

\* b continues a: same parent, same children, a ends where b starts
Squashable(a, b) ==
    a.parent = b.parent /\ a.children = b.children /\ a.right = b.left

\* what one emission e does to the buffer and the output table
EmissionBuffered(e) ==
    IF self.last_edgeset.children_length = 0
    THEN /\ Buffered(self') = e
         /\ edgesets'.num_rows = edgesets.num_rows
    ELSE IF Squashable(Buffered(self), e)
    THEN /\ Buffered(self') = [Buffered(self) EXCEPT !.right = e.right]
         /\ edgesets'.num_rows = edgesets.num_rows
    ELSE /\ Buffered(self') = e
         /\ edgesets'.num_rows = edgesets.num_rows + 1
         /\ edgeset_row(edgesets', edgesets.num_rows) = Buffered(self)

\* C8: after a successful run no two adjacent output rows are squashable
\* (equal parent, equal children, first.right = second.left); an emission is
\* merged into the buffer, extending its right, exactly when parent, sorted
\* children and the meeting coordinate match, and otherwise the buffered row
\* is written to the table exactly once (the last one by the final flush).
C8_NoSquashableRows ==
    /\ [](RunSucceeded =>
            \A j \in 0..(edgesets.num_rows - 2) :
                ~Squashable(edgeset_row(edgesets, j), edgeset_row(edgesets, j + 1)))
    /\ [][/\ Len(emitted') = Len(emitted) + 1
             => EmissionBuffered(Emission(emitted'[Len(emitted')]))
          /\ Len(emitted') = Len(emitted) /\ pc' /= "done"
             => edgesets'.num_rows = edgesets.num_rows \/ pc = "allocated"
          /\ pc = "flush" /\ pc' = "done" /\ ret' = 0
             => /\ edgesets'.num_rows = edgesets.num_rows + 1
                /\ edgeset_row(edgesets', edgesets.num_rows) = Buffered(self)
       ]_vars

\* a successful run in which one emission was squashed into the buffer and
\* another flushed it: three emissions, two rows
C8_Witness ==
    /\ RunSucceeded
    /\ Len(emitted) = 3
    /\ edgesets.num_rows = 2
    /\ \E i \in 1..2 : Squashable(Emission(emitted[i]), Emission(emitted[i + 1]))

\* C2: after simplifier_alloc and after a successful run, output node j, for
\* j below num_samples, is a copy (flags, time, population, name) of input
\* node samples[j], in argument order; after simplifier_alloc the chain of
\* samples[j] is the single segment [0, sequence_length) -> j.
C2_SamplesFirst ==
    /\ (pc = "allocated" \/ RunSucceeded) =>
          /\ nodes.num_rows >= Len(samples)
          /\ \A j \in 0..(Len(samples) - 1) :
                node_row(nodes, j) = node_row(input.nodes, samples[j + 1])
    /\ pc = "allocated" =>
          \A j \in 0..(Len(samples) - 1) :
              /\ self.ancestor_map[samples[j + 1] + 1] /= NULL
              /\ self.segment_mem[self.ancestor_map[samples[j + 1] + 1]]
                    = [left |-> 0, right |-> SeqLen, node |-> j, next |-> NULL]

\* a successful run for three samples given in descending order, with a
\* node recorded after them
C2_Witness ==
    /\ RunSucceeded
    /\ samples = <<2, 1, 0>>
    /\ nodes.num_rows > 3

\* the conditions under which simplifier_alloc refuses its parameters
BadParameters ==
    Len(samples) < 2 \/ input.nodes.num_rows = 0 \/ input.edgesets.num_rows = 0

\* what makes samples[j] (j from 1) invalid, in the order of the tests
SampleOutOfBounds(j) == samples[j] \notin 0..(input.nodes.num_rows - 1)
SampleNotFlagged(j) ==
    (input.nodes.flags[samples[j] + 1] \div MSP_NODE_IS_SAMPLE) % 2 = 0
SampleDuplicate(j) == \E i \in 1..(j - 1) : samples[i] = samples[j]
SampleInvalid(j) ==
    SampleOutOfBounds(j) \/ SampleNotFlagged(j) \/ SampleDuplicate(j)

\* the code simplifier_alloc is to return for the first invalid sample j
SampleError(j) ==
    IF SampleOutOfBounds(j) THEN MSP_ERR_OUT_OF_BOUNDS
    ELSE IF SampleNotFlagged(j) THEN MSP_ERR_BAD_SAMPLES
    ELSE MSP_ERR_DUPLICATE_SAMPLE

\* the return code of simplifier_alloc, kept in ret until simplifier_run
\* is under way
AllocReturned == pc \in {"allocated", "alloc_failed"}

C5_BadParamBeforeClearing ==
    AllocReturned /\ BadParameters =>
        /\ ret = MSP_ERR_BAD_PARAM_VALUE
        /\ nodes = input.nodes
        /\ edgesets = input.edgesets
        /\ sites = InitSites
        /\ mutations = InitMutations

\* simplifier_alloc refused a single sample over tables that hold rows
C5_Witness ==
    /\ pc = "alloc_failed"
    /\ Len(samples) = 1
    /\ nodes.num_rows = 3 /\ edgesets.num_rows = 1
    /\ sites.num_rows = 1 /\ mutations.num_rows = 1

\* some parent group of the input is followed by a group whose parent has
\* a strictly smaller time
InputUnsorted ==
    \E i \in 1..(Len(input.rows) - 1) :
        input.time[input.rows[i].parent] > input.time[input.rows[i + 1].parent]

\* C6: if the input edgesets are not in non-decreasing order of parent time,
\* simplifier_run fails with RecordsNotTimeSorted and never returns 0.
C6_UnsortedRejected ==
    InputUnsorted /\ pc = "done" => ret = MSP_ERR_RECORDS_NOT_TIME_SORTED

\* simplifier_run has returned RecordsNotTimeSorted after it had merged
\* the group of the older parent and recorded an edgeset for it
C6_Witness ==
    /\ InputUnsorted
    /\ pc = "done"
    /\ ret = MSP_ERR_RECORDS_NOT_TIME_SORTED
    /\ Len(emitted) >= 1

\* --------------------------------------------------------- genealogies
\* the rows of the output edgeset table
OutputRows == [j \in 1..edgesets.num_rows |-> edgeset_row(edgesets, j - 1)]

\* the parent of node u at position x in the rows, -1 when it has none
ParentAt(rows, u, x) ==
    IF \E i \in 1..Len(rows) :
          rows[i].left <= x /\ x < rows[i].right /\ u \in Range(rows[i].children)
    THEN rows[CHOOSE i \in 1..Len(rows) :
                 rows[i].left <= x /\ x < rows[i].right
                     /\ u \in Range(rows[i].children)].parent
    ELSE -1

\* u and its ancestors at position x, youngest first
RECURSIVE Lineage(_, _, _)
Lineage(rows, u, x) ==
    IF u = -1 THEN <<>> ELSE <<u>> \o Lineage(rows, ParentAt(rows, u, x), x)

\* the most recent common ancestor of a and b at x, -1 when they have none
MRCA(rows, a, b, x) ==
    LET la == Lineage(rows, a, x)
        lb == Lineage(rows, b, x)
        common == {i \in 1..Len(la) : la[i] \in Range(lb)}
    IN IF common = {} THEN -1
       ELSE la[CHOOSE i \in common : \A k \in common : i <= k]

\* output node o is a copy of input node u (the rows of the input node
\* table differ from each other)
CopyOf(o, u) == node_row(nodes, o) = node_row(input.nodes, u)

\* the MRCA of the samples j and k (positions in the samples list, from 1)
\* at x is the same in the output as in the input
SameMRCA(j, k, x) ==
    LET a == MRCA(input.rows, samples[j], samples[k], x)
        o == MRCA(OutputRows, j - 1, k - 1, x)
    IN IF a = -1 THEN o = -1 ELSE o /= -1 /\ CopyOf(o, a)

\* C1: after simplifier_run returns 0 on time-sorted input, for every pair
\* of samples and every position x in [0, sequence_length) the most recent
\* common ancestor of the pair at x in the output tables is the output
\* node recorded for the input node that is their most recent common
\* ancestor at x in the input tables.
C1_SameMRCA ==
    RunSucceeded /\ ~InputUnsorted =>
        \A j, k \in 1..Len(samples) : \A x \in 0..(SeqLen - 1) :
            j < k => SameMRCA(j, k, x)

\* some sample is c or descends from c at position x in the input
CarriesSample(c, x) ==
    \E j \in 1..Len(samples) : c \in Range(Lineage(input.rows, samples[j], x))

\* two or more sample lineages meet at input node u at some position
Coalesces(u) ==
    \E x \in 0..(SeqLen - 1) :
        \E c, d \in 0..(input.nodes.num_rows - 1) :
            /\ c /= d
            /\ ParentAt(input.rows, c, x) = u /\ CarriesSample(c, x)
            /\ ParentAt(input.rows, d, x) = u /\ CarriesSample(d, x)

\* C3: after a successful run the output holds only history ancestral to
\* the samples: every output node with id >= num_samples is the parent of
\* an output edgeset, and an input node that is no sample and at which no
\* two sample lineages coalesce has no copy among the output nodes and is
\* the parent of no output edgeset.
C3_OnlyAncestralHistory ==
    RunSucceeded =>
        /\ \A o \in Len(samples)..(nodes.num_rows - 1) :
              \E j \in 1..edgesets.num_rows : edgesets.parent[j] = o
        /\ \A u \in 0..(input.nodes.num_rows - 1) :
              u \notin Range(samples) /\ ~Coalesces(u) =>
                  /\ \A o \in 0..(nodes.num_rows - 1) : ~CopyOf(o, u)
                  /\ \A j \in 1..edgesets.num_rows :
                        ~CopyOf(edgesets.parent[j], u)

\* a successful run over an input in which a node that is no sample is
\* the parent of a single child carrying a sample, and another node is
\* recorded for a coalescence
C3_Witness ==
    /\ RunSucceeded
    /\ nodes.num_rows > Len(samples)
    /\ \E i \in 1..Len(input.rows) :
          /\ input.rows[i].parent \notin Range(samples)
          /\ ~Coalesces(input.rows[i].parent)
          /\ \E c \in Range(input.rows[i].children) :
                CarriesSample(c, input.rows[i].left)

\* simplifier_check_state is about to run on self: before the merge that a
\* change of parent starts, before a remove_ancestry, after the last merge
RunsCheckState ==
    \/ /\ pc = "row"
       /\ run.j < run.num_input_edgesets
       /\ edgesets.parent[run.j + 1] /= run.current_parent
    \/ /\ pc = "child"
       /\ run.k < run.children_length
       /\ edgesets.children[run.children + run.k + 1]
              \in 0..(self.input_nodes.num_rows - 1)
       /\ self.ancestor_map[edgesets.children[run.children + run.k + 1] + 1] /= NULL
    \/ /\ pc = "merge"
       /\ self.merge_queue = {}
       /\ run.after = "final"

\* the step is a simplifier_remove_ancestry that returned: check_state runs
\* on the state it leaves
RemovedAncestry ==
    /\ pc = "child"
    /\ RunsCheckState
    /\ pc' = "child"

\* the segments allocated are those the chains hold
SegmentsAccounted(s) == total_segments(s) = Cardinality(s.segment_used)

\* the avl nodes allocated are those of the queue and of the overlap counts;
\* the overlap_count records allocated are those of the overlap-count map
AvlNodesAccounted(s) ==
    /\ s.num_avl_nodes
          = Cardinality(s.merge_queue) + Cardinality(DOMAIN s.overlap_counts)
    /\ s.num_overlap_counts = Cardinality(DOMAIN s.overlap_counts)

\* C11: wherever simplifier_check_state runs during simplifier_run on a
\* time-sorted input that simplifier_alloc accepted, the number of segments
\* allocated from the pool equals the number of segments counted along the
\* chains of the ancestor map and of the merge queue.
C11_SegmentsAccounted ==
    /\ [](RunsCheckState /\ ~InputUnsorted => SegmentsAccounted(self))
    /\ [][RemovedAncestry /\ ~InputUnsorted => SegmentsAccounted(self')]_vars

Covering(u, x) ==
    {g \in Range(chain(self.segment_mem, self.ancestor_map[u + 1])) :
        /\ self.segment_mem[g].left <= x
        /\ x < self.segment_mem[g].right}

\* row m of the output mutation table is the input mutation j on output
\* node v: same position of its site, same derived state
RetainedAs(j, v, m) ==
    /\ mutations.node[m] = v
    /\ mutations.site[m] \in 0..(sites.num_rows - 1)
    /\ sites.position[mutations.site[m] + 1]
          = InitSites.position[InitMutations.site[j] + 1]
    /\ mutations.derived_state_length[m] = InitMutations.derived_state_length[j]

\* C13: after simplifier_run returned 0, every input mutation whose node has
\* a final ancestor chain covering the position of its site is in the output
\* mutation table, on the output node of the covering segment and at a site
\* of the output site table with the same position.
C13_MutationsRetained ==
    RunSucceeded =>
        \A j \in 1..InitMutations.num_rows :
            \A g \in Covering(InitMutations.node[j],
                              InitSites.position[InitMutations.site[j] + 1]) :
                \E m \in 1..mutations.num_rows :
                    RetainedAs(j, self.segment_mem[g].node, m)

\* the chain starting at head in mem maps position x to output node u
MapsTo(mem, head, x, u) ==
    \E g \in Range(chain(mem, head)) :
        mem[g].left <= x /\ x < mem[g].right /\ mem[g].node = u

\* the chain starting at head in mem has ancestry within [left, right)
Intersects(mem, head, left, right) ==
    \E g \in Range(chain(mem, head)) : mem[g].left < right /\ left < mem[g].right

\* the child whose ancestry the next remove_ancestry removes
NextChild == edgesets.children[run.children + run.k + 1]

\* the chains the step pushed onto the merge queue
Pushed == self'.merge_queue \ self.merge_queue

\* C20: a simplifier_remove_ancestry(left, right, input_id) with
\* left < right that returned leaves, for every position x and output node
\* u, the old chain of input_id mapping x to u exactly when x is in
\* [left, right) and the pushed chain maps x to u, or x is outside
\* [left, right) and the chain left at ancestor_map[input_id] maps x to u;
\* it pushes exactly one queue entry when the old chain intersects
\* [left, right) and none otherwise, and both chains are ordered.
C20_RemoveAncestryPartitions ==
    [][RemovedAncestry /\ run.left < run.right =>
        /\ \A x \in 0..(SeqLen - 1) : \A u \in 0..(nodes.num_rows - 1) :
              MapsTo(self.segment_mem, self.ancestor_map[NextChild + 1], x, u)
              <=> \/ /\ run.left <= x /\ x < run.right
                     /\ \E q \in Pushed : MapsTo(self'.segment_mem, q, x, u)
                  \/ /\ ~(run.left <= x /\ x < run.right)
                     /\ MapsTo(self'.segment_mem,
                               self'.ancestor_map[NextChild + 1], x, u)
        /\ Cardinality(Pushed)
              = IF Intersects(self.segment_mem, self.ancestor_map[NextChild + 1],
                              run.left, run.right) THEN 1 ELSE 0
        /\ \A q \in Pushed : chain_ordered(self'.segment_mem, q)
        /\ chain_ordered(self'.segment_mem, self'.ancestor_map[NextChild + 1])]_vars

\* a remove_ancestry is due that splits a segment of the child's chain:
\* part of it is inside the interval and part of it stays
C20_Witness ==
    /\ pc = "child"
    /\ RunsCheckState
    /\ run.left < run.right
    /\ \E g \in Range(chain(self.segment_mem, self.ancestor_map[NextChild + 1])) :
          /\ self.segment_mem[g].left < run.right
          /\ run.left < self.segment_mem[g].right
          /\ \/ self.segment_mem[g].left < run.left
             \/ run.right < self.segment_mem[g].right

\* ------------------------------------------------------------ table sorter
\* sort_tables(nodes, edgesets, migrations, sites, mutations) is modelled on
\* the state variables of the tables; self is the table_sorter_t (sites and
\* mutations are TRUE for a table given and FALSE for NULL), input the
\* tables before the call and emitted the reads made with an index outside
\* the column read.

\* the uninitialised cells that malloc returns
malloc(n) == [i \in 1..n |-> Junk]

\* Compare sites by position
cmp_site(a, b) ==
    (IF a.position > b.position THEN 1 ELSE 0)
        - (IF a.position < b.position THEN 1 ELSE 0)

\* Compare mutations by site
cmp_mutation(a, b) ==
    (IF a.site > b.site THEN 1 ELSE 0) - (IF a.site < b.site THEN 1 ELSE 0)

\* by time; if time values are equal by the parent node; if the nodes are
\* equal by the left coordinate
cmp_edgeset(a, b) ==
    IF a.time /= b.time THEN (IF a.time > b.time THEN 1 ELSE -1)
    ELSE IF a.parent /= b.parent THEN (IF a.parent > b.parent THEN 1 ELSE -1)
    ELSE IF a.left /= b.left THEN (IF a.left > b.left THEN 1 ELSE -1)
    ELSE 0

Orders(n) ==
    {p \in [1..n -> 1..n] : \A i, k \in 1..n : i /= k => p[i] /= p[k]}

\* qsort(base, nmemb, size, cmp): the array in an order that cmp accepts.
\* The order of elements that compare equal is unspecified: every such
\* order is an outcome.
qsort(base, cmp(_, _)) ==
    {[i \in 1..Len(base) |-> base[p[i]]] :
        p \in {q \in Orders(Len(base)) :
                  \A i \in 1..(Len(base) - 1) :
                      cmp(base[q[i]], base[q[i + 1]]) <= 0}}

RECURSIVE Concat(_)
Concat(ss) == IF Len(ss) = 0 THEN <<>> ELSE ss[1] \o Concat(Tail(ss))

\* the first row j (from 1) of the first n whose id column[j] is
\* >= num_rows, 0 when there is none: the only test the sorter makes
first_out_of_bounds(column, n, num_rows) ==
    IF \E j \in 1..n : column[j] >= num_rows
    THEN CHOOSE j \in 1..n :
            /\ column[j] >= num_rows
            /\ \A i \in 1..(j - 1) : column[i] < num_rows
    ELSE 0

\* sorted_edgesets[j] as the first loop fills it; the time of a parent
\* below 0 is read before the start of the time column and is g
edgeset_sort_t(nodes_t, t, j, g) ==
    [left |-> t.left[j], right |-> t.right[j], parent |-> t.parent[j],
     children_length |-> t.children_length[j],
     children |-> Slice(t.children, SumSeq(Slice(t.children_length, 0, j - 1)),
                        t.children_length[j]),
     time |-> IF t.parent[j] >= 0 THEN nodes_t.time[t.parent[j] + 1] ELSE g]

\* edgesets_copy_back without the qsort of the children
edgesets_copy_back_unsorted(t, sorted) ==
    [t EXCEPT !.left = Memcpy(@, 0, [i \in 1..Len(sorted) |-> sorted[i].left]),
              !.right = Memcpy(@, 0, [i \in 1..Len(sorted) |-> sorted[i].right]),
              !.parent = Memcpy(@, 0, [i \in 1..Len(sorted) |-> sorted[i].parent]),
              !.children_length =
                  Memcpy(@, 0, [i \in 1..Len(sorted) |-> sorted[i].children_length]),
              !.children =
                  Memcpy(@, 0, Concat([i \in 1..Len(sorted) |-> sorted[i].children]))]

\* Copy the edgesets back into the table, the children of each row sorted
edgesets_copy_back(t, sorted) ==
    [t EXCEPT !.left = Memcpy(@, 0, [i \in 1..Len(sorted) |-> sorted[i].left]),
              !.right = Memcpy(@, 0, [i \in 1..Len(sorted) |-> sorted[i].right]),
              !.parent = Memcpy(@, 0, [i \in 1..Len(sorted) |-> sorted[i].parent]),
              !.children_length =
                  Memcpy(@, 0, [i \in 1..Len(sorted) |-> sorted[i].children_length]),
              !.children =
                  Memcpy(@, 0, Concat([i \in 1..Len(sorted) |->
                                          qsort_node_id(sorted[i].children)]))]

\* the rows whose time the first loop reads with a parent below 0
edgeset_rows_read_below(nodes_t, t) ==
    {j \in 1..t.num_rows :
        /\ t.parent[j] < 0
        /\ \A i \in 1..j : t.parent[i] < nodes_t.num_rows}

\* table_sorter_sort_edgesets: the outcomes [ret, edgesets]
table_sorter_sort_edgesets(nodes_t, t, g) ==
    IF first_out_of_bounds(t.parent, t.num_rows, nodes_t.num_rows) /= 0
    THEN {[ret |-> MSP_ERR_OUT_OF_BOUNDS, edgesets |-> t]}
    ELSE {[ret |-> 0, edgesets |-> edgesets_copy_back(t, sorted)] :
             sorted \in qsort([j \in 1..t.num_rows |-> edgeset_sort_t(nodes_t, t, j, g)],
                              cmp_edgeset)}

\* sorted_sites[j] as the first loop fills it
site_t(t, j) ==
    [id |-> j - 1, position |-> t.position[j],
     ancestral_state_length |-> t.ancestral_state_length[j],
     ancestral_state |->
         Slice(t.ancestral_state, SumSeq(Slice(t.ancestral_state_length, 0, j - 1)),
               t.ancestral_state_length[j])]

\* site_id_map[sorted_sites[j].id] = j for every j
site_id_map_of(sorted) ==
    [i \in 1..Len(sorted) |->
        (CHOOSE j \in 1..Len(sorted) : sorted[j].id = i - 1) - 1]

\* copy the sorted sites back into the table
sites_copy_back(t, sorted) ==
    [t EXCEPT !.position = Memcpy(@, 0, [i \in 1..Len(sorted) |-> sorted[i].position]),
              !.ancestral_state_length = Memcpy(@, 0,
                  [i \in 1..Len(sorted) |-> sorted[i].ancestral_state_length]),
              !.ancestral_state = Memcpy(@, 0,
                  Concat([i \in 1..Len(sorted) |-> sorted[i].ancestral_state]))]

\* table_sorter_sort_sites: the outcomes [sites, site_id_map]; it returns 0
table_sorter_sort_sites(t) ==
    {[sites |-> sites_copy_back(t, sorted), site_id_map |-> site_id_map_of(sorted)] :
        sorted \in qsort([j \in 1..t.num_rows |-> site_t(t, j)], cmp_site)}

\* the first row (from 1) at which sort_mutations returns OutOfBounds, 0
\* when there is none: the site is >= the number of sites or the node is
\* >= the number of nodes
mutation_out_of_bounds(nodes_t, sites_t, t) ==
    IF \E j \in 1..t.num_rows :
           t.site[j] >= sites_t.num_rows \/ t.node[j] >= nodes_t.num_rows
    THEN CHOOSE j \in 1..t.num_rows :
            /\ t.site[j] >= sites_t.num_rows \/ t.node[j] >= nodes_t.num_rows
            /\ \A i \in 1..(j - 1) :
                  t.site[i] < sites_t.num_rows /\ t.node[i] < nodes_t.num_rows
    ELSE 0

\* sorted_mutations[j] as the first loop fills it; the new id of a site
\* below 0 is read before the start of site_id_map and is g
mutation_t(t, site_id_map, j, g) ==
    [site |-> IF t.site[j] >= 0 THEN site_id_map[t.site[j] + 1] ELSE g,
     node |-> t.node[j],
     derived_state_length |-> t.derived_state_length[j],
     derived_state |->
         Slice(t.derived_state, SumSeq(Slice(t.derived_state_length, 0, j - 1)),
               t.derived_state_length[j])]

\* Copy the sorted mutations back into the table
mutations_copy_back(t, sorted) ==
    [t EXCEPT !.site = Memcpy(@, 0, [i \in 1..Len(sorted) |-> sorted[i].site]),
              !.node = Memcpy(@, 0, [i \in 1..Len(sorted) |-> sorted[i].node]),
              !.derived_state_length = Memcpy(@, 0,
                  [i \in 1..Len(sorted) |-> sorted[i].derived_state_length]),
              !.derived_state = Memcpy(@, 0,
                  Concat([i \in 1..Len(sorted) |-> sorted[i].derived_state]))]

\* the rows whose new site the first loop reads with a site below 0
mutation_rows_read_below(nodes_t, sites_t, t) ==
    {j \in 1..t.num_rows :
        /\ t.site[j] < 0
        /\ t.node[j] < nodes_t.num_rows
        /\ \A i \in 1..(j - 1) :
              t.site[i] < sites_t.num_rows /\ t.node[i] < nodes_t.num_rows}

\* table_sorter_sort_mutations: the outcomes [ret, mutations]
table_sorter_sort_mutations(nodes_t, sites_t, t, site_id_map, g) ==
    IF mutation_out_of_bounds(nodes_t, sites_t, t) /= 0
    THEN {[ret |-> MSP_ERR_OUT_OF_BOUNDS, mutations |-> t]}
    ELSE {[ret |-> 0, mutations |-> mutations_copy_back(t, sorted)] :
             sorted \in qsort([j \in 1..t.num_rows |->
                                  mutation_t(t, site_id_map, j, g)],
                              cmp_mutation)}

\* the site table the caller fills with site_table_add_row
RECURSIVE BuildSites(_, _)
BuildSites(rows, n) ==
    IF n = 0 THEN site_table_alloc(RowIncrement, PayloadIncrement)
    ELSE site_table_add_row(BuildSites(rows, n - 1), rows[n].position,
             rows[n].ancestral_state, Len(rows[n].ancestral_state))

\* the mutation table the caller fills with mutation_table_add_row
RECURSIVE BuildMutations(_, _)
BuildMutations(rows, n) ==
    IF n = 0 THEN mutation_table_alloc(RowIncrement, PayloadIncrement)
    ELSE mutation_table_add_row(BuildMutations(rows, n - 1), rows[n].site,
             rows[n].node, rows[n].derived_state, Len(rows[n].derived_state))

\* the sequences of at most n elements of S
SeqsUpTo(S, n) == UNION {[1..m -> S] : m \in 0..n}

\* the times an out-of-bounds read of the time column can yield
Times == 0..MaxTime

\* the site ids an out-of-bounds read of site_id_map can yield
SiteIds == -1..MaxSites

\* node ids given to the sorter: one below the table, its rows, one past it
SortNodeIds == -1..SortNumNodes

SortNodeTimes == [0..(SortNumNodes - 1) -> 0..1]

\* edgeset rows in any order, rows with equal sort keys among them
SortEdgesetRows ==
    {[left |-> l, right |-> l + 1, parent |-> p, children |-> c] :
        l \in 0..(SeqLen - 1), p \in SortNodeIds, c \in {<<0>>, <<1, 0>>}}

\* sites in any order, sites at one position among them
SortSiteRows ==
    {[position |-> x, ancestral_state |-> a] :
        x \in 0..SeqLen, a \in {<<48>>, <<48, 49>>}}

\* mutations on sites and nodes of the tables, and one site past them
SortFewMutationRows ==
    {[site |-> i, node |-> u, derived_state |-> <<49>>] :
        i \in 0..(MaxSites - 1), u \in 0..(SortNumNodes - 1)}

\* mutations with any site and node id over a table of two sites
SortMutationRows ==
    {[site |-> i, node |-> u, derived_state |-> d] :
        i \in -1..2, u \in SortNodeIds, d \in {<<>>, <<49>>}}

\* sort_tables is called with these tables; sites and mutations are passed
\* when given_sites and given_mutations are TRUE, else NULL is passed
SortInitWith(tp, erows, srows, mrows, given_sites, given_mutations) ==
    /\ nodes = BuildNodes(tp, 0, SortNumNodes)
    /\ edgesets = BuildEdgesets(erows, Len(erows))
    /\ sites = BuildSites(srows, Len(srows))
    /\ mutations = BuildMutations(mrows, Len(mrows))
    /\ samples = <<>>
    /\ self = [sites |-> given_sites, mutations |-> given_mutations,
               site_id_map |-> <<>>]
    /\ run = run_zero
    /\ pc = "sort_tables"
    /\ ret = 0
    /\ input = [nodes |-> BuildNodes(tp, 0, SortNumNodes),
                edgesets |-> BuildEdgesets(erows, Len(erows)),
                sites |-> BuildSites(srows, Len(srows)),
                mutations |-> BuildMutations(mrows, Len(mrows))]
    /\ emitted = {}

\* every edgeset table of at most MaxRows rows, no site table given
SortInitEdgesets ==
    \E tp \in SortNodeTimes : \E erows \in SeqsUpTo(SortEdgesetRows, MaxRows) :
        SortInitWith(tp, erows, <<>>, <<>>, FALSE, FALSE)

\* every site table of at most MaxSites rows, with a few mutations
SortInitSites ==
    \E srows \in SeqsUpTo(SortSiteRows, MaxSites) :
        \E mrows \in SeqsUpTo(SortFewMutationRows, MaxMutations) :
            SortInitWith([i \in 0..(SortNumNodes - 1) |-> i],
                         <<[left |-> 0, right |-> 1, parent |-> 1, children |-> <<0>>]>>,
                         srows, mrows, TRUE, TRUE)

\* every mutation table of at most MaxMutations rows over two sites, given
\* in descending and in ascending order of position
SortInitMutations ==
    \E srows \in {<<[position |-> 1, ancestral_state |-> <<48>>],
                    [position |-> 0, ancestral_state |-> <<48, 49>>]>>,
                  <<[position |-> 0, ancestral_state |-> <<48>>],
                    [position |-> 1, ancestral_state |-> <<48, 49>>]>>} :
        \E mrows \in SeqsUpTo(SortMutationRows, MaxMutations) :
            SortInitWith([i \in 0..(SortNumNodes - 1) |-> i],
                         <<[left |-> 0, right |-> 1, parent |-> 1, children |-> <<0>>]>>,
                         srows, mrows, TRUE, TRUE)

\* one of the two tables is given and the other is NULL
SortInitOneGiven ==
    \E given \in BOOLEAN :
        \E erows \in SeqsUpTo(SortEdgesetRows, 1) :
            \E mrows \in SeqsUpTo(SortFewMutationRows, 1) :
                SortInitWith([i \in 0..(SortNumNodes - 1) |-> i], erows,
                             <<[position |-> 0, ancestral_state |-> <<48>>]>>,
                             mrows, given, ~given)

SortInit ==
    \/ SortInitEdgesets
    \/ SortInitSites
    \/ SortInitMutations
    \/ SortInitOneGiven

\* table_sorter_alloc: if you provide a site table, you must provide a
\* mutation table; site_id_map is allocated for the sites given
TableSorterAlloc ==
    /\ pc = "sort_tables"
    /\ IF self.sites /\ ~self.mutations
       THEN /\ ret' = MSP_ERR_BAD_PARAM_VALUE
            /\ pc' = "sort_done"
            /\ self' = self
       ELSE /\ ret' = 0
            /\ pc' = "sort_edgesets"
            /\ self' = IF self.sites
                       THEN [self EXCEPT !.site_id_map = malloc(sites.num_rows)]
                       ELSE self
    /\ UNCHANGED <<nodes, edgesets, sites, mutations, samples, run, input, emitted>>

\* the time column is read at the parents below 0
time_reads(nodes_t, t) ==
    {[column |-> "time", index |-> t.parent[j]] :
        j \in edgeset_rows_read_below(nodes_t, t)}

\* table_sorter_sort_edgesets returned o
SortEdgesetsTo(o) ==
    /\ edgesets' = o.edgesets
    /\ ret' = o.ret
    /\ emitted' = emitted \cup time_reads(nodes, edgesets)
    /\ pc' = IF o.ret = 0 /\ self.sites THEN "sort_sites" ELSE "sort_done"
    /\ UNCHANGED <<nodes, sites, mutations, samples, self, run, input>>

\* table_sorter_run: table_sorter_sort_edgesets.  A read before the start
\* of the time column yields some time, or the process ends there.
SortEdgesets ==
    /\ pc = "sort_edgesets"
    /\ \/ /\ time_reads(nodes, edgesets) /= {}
          /\ Abort
       \/ \E g \in Times :
             \E o \in table_sorter_sort_edgesets(nodes, edgesets, g) :
                 SortEdgesetsTo(o)

\* table_sorter_run: table_sorter_sort_sites
SortSites ==
    /\ pc = "sort_sites"
    /\ \E o \in table_sorter_sort_sites(sites) :
          /\ sites' = o.sites
          /\ self' = [self EXCEPT !.site_id_map = o.site_id_map]
    /\ pc' = "sort_mutations"
    /\ UNCHANGED <<nodes, edgesets, mutations, samples, run, ret, input, emitted>>

\* site_id_map is read at the sites below 0
site_id_map_reads(nodes_t, sites_t, t) ==
    {[column |-> "site_id_map", index |-> t.site[j]] :
        j \in mutation_rows_read_below(nodes_t, sites_t, t)}

\* table_sorter_sort_mutations returned o
SortMutationsTo(o) ==
    /\ mutations' = o.mutations
    /\ ret' = o.ret
    /\ emitted' = emitted \cup site_id_map_reads(nodes, sites, mutations)
    /\ pc' = "sort_done"
    /\ UNCHANGED <<nodes, edgesets, sites, samples, self, run, input>>

\* table_sorter_run: table_sorter_sort_mutations.  A read before the start
\* of site_id_map yields some site id, or the process ends there.
SortMutations ==
    /\ pc = "sort_mutations"
    /\ \/ /\ site_id_map_reads(nodes, sites, mutations) /= {}
          /\ Abort
       \/ \E g \in SiteIds :
             \E o \in table_sorter_sort_mutations(nodes, sites, mutations,
                                                  self.site_id_map, g) :
                 SortMutationsTo(o)

SortNext ==
    \/ TableSorterAlloc
    \/ SortEdgesets
    \/ SortSites
    \/ SortMutations

SortSpec == SortInit /\ [][SortNext]_vars

\* row j (from 0) of a site table
site_row(t, j) ==
    [position |-> t.position[j + 1],
     ancestral_state |->
         Slice(t.ancestral_state, SumSeq(Slice(t.ancestral_state_length, 0, j)),
               t.ancestral_state_length[j + 1])]

\* row j (from 0) of a mutation table
mutation_row(t, j) ==
    [site |-> t.site[j + 1], node |-> t.node[j + 1],
     derived_state |->
         Slice(t.derived_state, SumSeq(Slice(t.derived_state_length, 0, j)),
               t.derived_state_length[j + 1])]

\* sort_tables returned
SortReturned == pc = "sort_done"

\* sort_tables returned 0
SortSucceeded == pc = "sort_done" /\ ret = 0

\* id is the index of a row of a table of num_rows rows
ValidId(id, num_rows) == id \in 0..(num_rows - 1)

\* rows a and b are in the order (time of parent, parent id, left)
EdgesetKeyLeq(nodes_t, a, b) ==
    /\ ValidId(a.parent, nodes_t.num_rows)
    /\ ValidId(b.parent, nodes_t.num_rows)
    /\ \/ nodes_t.time[a.parent + 1] < nodes_t.time[b.parent + 1]
       \/ /\ nodes_t.time[a.parent + 1] = nodes_t.time[b.parent + 1]
          /\ \/ a.parent < b.parent
             \/ a.parent = b.parent /\ a.left <= b.left

\* the rows of an edgeset table, the children of each as a set
EdgesetRowSets(t) ==
    [j \in 1..t.num_rows |->
        [left |-> t.left[j], right |-> t.right[j], parent |-> t.parent[j],
         children |-> Range(edgeset_row(t, j - 1).children)]]

\* the sequences a and b hold the same elements, each as often
SameMultiset(a, b) ==
    /\ Len(a) = Len(b)
    /\ \E p \in Orders(Len(a)) : \A i \in 1..Len(a) : a[i] = b[p[i]]

\* C14: after sort_tables returned 0 the edgeset rows are in non-decreasing
\* order of (time of parent, parent id, left), the multiset of rows (left,
\* right, parent, set of children) is the one before the call, num_rows and
\* total_children_length are unchanged and the children of the rows lie
\* one after the other in the new row order.
C14_EdgesetsSorted ==
    SortSucceeded =>
        /\ \A j \in 1..(edgesets.num_rows - 1) :
              EdgesetKeyLeq(nodes, edgeset_row(edgesets, j - 1),
                            edgeset_row(edgesets, j))
        /\ SameMultiset(EdgesetRowSets(edgesets), EdgesetRowSets(input.edgesets))
        /\ edgesets.num_rows = input.edgesets.num_rows
        /\ edgesets.total_children_length = input.edgesets.total_children_length
        /\ edgesets.total_children_length
              = SumSeq(Slice(edgesets.children_length, 0, edgesets.num_rows))

\* table_sorter_alloc accepted the tables given
SorterAllocated == ~(self.sites /\ ~self.mutations)

\* some edgeset parent given is not the index of a node
ParentOutOfBounds ==
    \E j \in 1..input.edgesets.num_rows :
        ~ValidId(input.edgesets.parent[j], input.nodes.num_rows)

\* some mutation given has a site that is not the index of a site or a node
\* that is not the index of a node
MutationOutOfBounds ==
    \E j \in 1..input.mutations.num_rows :
        \/ ~ValidId(input.mutations.site[j], input.sites.num_rows)
        \/ ~ValidId(input.mutations.node[j], input.nodes.num_rows)

\* C15: sort_tables fails with OutOfBounds whenever an edgeset parent is
\* not a valid node index and, when a site table is supplied, whenever a
\* mutation's site is not a valid site index or its node is not a valid
\* node index; it reads neither the node times nor the site remap with an
\* invalid index.
C15_OutOfBoundsRejected ==
    /\ pc \in {"sort_done", "aborted"} /\ SorterAllocated
          /\ (ParentOutOfBounds \/ (self.sites /\ MutationOutOfBounds))
          => pc = "sort_done" /\ ret = MSP_ERR_OUT_OF_BOUNDS
    /\ pc \in {"sort_edgesets", "sort_sites", "sort_mutations", "sort_done",
               "aborted"}
          => pc /= "aborted" /\ emitted = {}

\* the edgeset table is in the order the sorter establishes: the rows by
\* (time of parent, parent, left), the children of each row by id
EdgesetsInOrder(nodes_t, t) ==
    /\ \A j \in 1..(t.num_rows - 1) :
          EdgesetKeyLeq(nodes_t, edgeset_row(t, j - 1), edgeset_row(t, j))
    /\ \A j \in 1..t.num_rows :
          ValidId(t.parent[j], nodes_t.num_rows)
    /\ \A j \in 1..t.num_rows :
          edgeset_row(t, j - 1).children
              = qsort_node_id(edgeset_row(t, j - 1).children)

\* the sites are in non-decreasing order of position
SitesInOrder(t) ==
    \A j \in 1..(t.num_rows - 1) : t.position[j] <= t.position[j + 1]

\* the mutations are in non-decreasing order of site
MutationsInOrder(t) ==
    \A j \in 1..(t.num_rows - 1) : t.site[j] <= t.site[j + 1]

\* the tables given already satisfy the sort order, every id in them valid
InputInOrder ==
    /\ EdgesetsInOrder(input.nodes, input.edgesets)
    /\ self.sites => /\ SitesInOrder(input.sites)
                     /\ MutationsInOrder(input.mutations)
                     /\ ~MutationOutOfBounds

\* C16: sort_tables applied to tables that already satisfy the sort order
\* leaves every column of the edgeset, site and mutation tables as it was,
\* also when rows share a sort key.
C16_SortedUnchanged ==
    SortSucceeded /\ InputInOrder =>
        /\ edgesets = input.edgesets
        /\ sites = input.sites
        /\ mutations = input.mutations

\* output mutation m (from 1) is input mutation j (from 1): its own node
\* and derived state, and a site with the position and ancestral state of
\* the site it referred to
SameMutation(m, j) ==
    /\ mutations.node[m] = input.mutations.node[j]
    /\ mutation_row(mutations, m - 1).derived_state
          = mutation_row(input.mutations, j - 1).derived_state
    /\ ValidId(mutations.site[m], sites.num_rows)
    /\ ValidId(input.mutations.site[j], input.sites.num_rows)
    /\ site_row(sites, mutations.site[m])
          = site_row(input.sites, input.mutations.site[j])

\* C17: after sort_tables returned 0 with a site table supplied the sites
\* are in non-decreasing order of position, the mutations in non-decreasing
\* order of their new site id, and every mutation refers to a site with
\* the position and ancestral state of the site it referred to before,
\* keeping its node and derived state.
C17_SitesAndMutationsSorted ==
    SortSucceeded /\ self.sites =>
        /\ SitesInOrder(sites)
        /\ MutationsInOrder(mutations)
        /\ mutations.num_rows = input.mutations.num_rows
        /\ \E p \in Orders(mutations.num_rows) :
              \A m \in 1..mutations.num_rows : SameMutation(m, p[m])

\* ------------------------------------------------------------ table calls
\* A caller works on one table with add_row, set_columns and reset.  The
\* tables are the state variables of their kind, the migration table is
\* self; input is the last call made (the table, the operation, the rows
\* given), run counts the calls.

\* row j (from 0) of a migration table
migration_row(t, j) ==
    [left |-> t.left[j + 1], right |-> t.right[j + 1], node |-> t.node[j + 1],
     source |-> t.source[j + 1], dest |-> t.dest[j + 1], time |-> t.time[j + 1]]

\* the rows a caller gives: payloads of length 0, 1 and 2
NodeRows ==
    {[flags |-> 1, time |-> 0, population |-> -1, name |-> a] :
        a \in {<<>>, <<65>>, <<66, 67>>}}

EdgesetRows ==
    {[left |-> 0, right |-> 1, parent |-> 2, children |-> c] :
        c \in {<<>>, <<0>>, <<1, 0>>}}

SiteRows ==
    {[position |-> 0, ancestral_state |-> a] : a \in {<<>>, <<48>>, <<48, 49>>}}

MutationRows ==
    {[site |-> 0, node |-> 0, derived_state |-> d] : d \in {<<>>, <<49>>, <<50, 51>>}}

MigrationRows ==
    {[left |-> 0, right |-> 1, node |-> u, source |-> 0, dest |-> 1, time |-> 0] :
        u \in 0..1}

\* the column f of the rows given, and the lengths of their payloads f
Column(rows, f) == [i \in 1..Len(rows) |-> rows[i][f]]
Lengths(rows, f) == [i \in 1..Len(rows) |-> Len(rows[i][f])]

\* the call made becomes the last call
Called(op, rows, code) ==
    /\ input' = [input EXCEPT !.op = op, !.rows = rows]
    /\ ret' = code
    /\ run' = [run EXCEPT !.ops = @ + 1]
    /\ pc' = pc

TableInit ==
    /\ nodes = node_table_alloc(RowIncrement, PayloadIncrement)
    /\ edgesets = edgeset_table_alloc(RowIncrement, PayloadIncrement)
    /\ sites = site_table_alloc(RowIncrement, PayloadIncrement)
    /\ mutations = mutation_table_alloc(RowIncrement, PayloadIncrement)
    /\ self = migration_table_alloc(RowIncrement)
    /\ samples = <<>>
    /\ run = [ops |-> 0]
    /\ pc = "tables"
    /\ ret = 0
    /\ input \in {[table |-> k, op |-> "alloc", rows |-> <<>>] :
                     k \in {"node", "edgeset", "site", "mutation", "migration"}}
    /\ emitted = <<>>

\* node_table_add_row, node_table_set_columns or node_table_reset
NodeTableCall ==
    /\ input.table = "node" /\ run.ops < MaxOps
    /\ \/ \E row \in NodeRows :
             /\ nodes' = node_table_add_row(nodes, row.flags, row.time,
                                            row.population, row.name)
             /\ Called("add_row", <<row>>, 0)
       \/ \E rows \in SeqsUpTo(NodeRows, MaxSetRows) :
             /\ nodes' = node_table_set_columns(nodes, Len(rows),
                    Column(rows, "flags"), Column(rows, "time"),
                    Column(rows, "population"), Concat(Column(rows, "name")),
                    Lengths(rows, "name"))
             /\ Called("set_columns", rows, 0)
       \/ /\ nodes' = node_table_reset(nodes)
          /\ Called("reset", <<>>, 0)
    /\ UNCHANGED <<edgesets, sites, mutations, samples, self, emitted>>

\* edgeset_table_add_row, edgeset_table_set_columns or edgeset_table_reset
EdgesetTableCall ==
    /\ input.table = "edgeset" /\ run.ops < MaxOps
    /\ \/ \E row \in EdgesetRows :
             /\ edgesets' = edgeset_table_add_row(edgesets, row.left, row.right,
                    row.parent, row.children, Len(row.children)).t
             /\ Called("add_row", <<row>>,
                       edgeset_table_add_row(edgesets, row.left, row.right,
                           row.parent, row.children, Len(row.children)).ret)
       \/ \E rows \in SeqsUpTo(EdgesetRows, MaxSetRows) :
             /\ edgesets' = edgeset_table_set_columns(edgesets, Len(rows),
                    Column(rows, "left"), Column(rows, "right"),
                    Column(rows, "parent"), Concat(Column(rows, "children")),
                    Lengths(rows, "children"))
             /\ Called("set_columns", rows, 0)
       \/ /\ edgesets' = edgeset_table_reset(edgesets)
          /\ Called("reset", <<>>, 0)
    /\ UNCHANGED <<nodes, sites, mutations, samples, self, emitted>>

\* site_table_add_row, site_table_set_columns or site_table_reset
SiteTableCall ==
    /\ input.table = "site" /\ run.ops < MaxOps
    /\ \/ \E row \in SiteRows :
             /\ sites' = site_table_add_row(sites, row.position,
                    row.ancestral_state, Len(row.ancestral_state))
             /\ Called("add_row", <<row>>, 0)
       \/ \E rows \in SeqsUpTo(SiteRows, MaxSetRows) :
             /\ sites' = site_table_set_columns(sites, Len(rows),
                    Column(rows, "position"),
                    Concat(Column(rows, "ancestral_state")),
                    Lengths(rows, "ancestral_state"))
             /\ Called("set_columns", rows, 0)
       \/ /\ sites' = site_table_reset(sites)
          /\ Called("reset", <<>>, 0)
    /\ UNCHANGED <<nodes, edgesets, mutations, samples, self, emitted>>

\* mutation_table_add_row, mutation_table_set_columns or mutation_table_reset
MutationTableCall ==
    /\ input.table = "mutation" /\ run.ops < MaxOps
    /\ \/ \E row \in MutationRows :
             /\ mutations' = mutation_table_add_row(mutations, row.site, row.node,
                    row.derived_state, Len(row.derived_state))
             /\ Called("add_row", <<row>>, 0)
       \/ \E rows \in SeqsUpTo(MutationRows, MaxSetRows) :
             /\ mutations' = mutation_table_set_columns(mutations, Len(rows),
                    Column(rows, "site"), Column(rows, "node"),
                    Concat(Column(rows, "derived_state")),
                    Lengths(rows, "derived_state"))
             /\ Called("set_columns", rows, 0)
       \/ /\ mutations' = mutation_table_reset(mutations)
          /\ Called("reset", <<>>, 0)
    /\ UNCHANGED <<nodes, edgesets, sites, samples, self, emitted>>

\* migration_table_add_row, migration_table_set_columns or migration_table_reset
MigrationTableCall ==
    /\ input.table = "migration" /\ run.ops < MaxOps
    /\ \/ \E row \in MigrationRows :
             /\ self' = migration_table_add_row(self, row.left, row.right,
                    row.node, row.source, row.dest, row.time)
             /\ Called("add_row", <<row>>, 0)
       \/ \E rows \in SeqsUpTo(MigrationRows, MaxSetRows) :
             /\ self' = migration_table_set_columns(self, Len(rows),
                    Column(rows, "left"), Column(rows, "right"),
                    Column(rows, "node"), Column(rows, "source"),
                    Column(rows, "dest"), Column(rows, "time"))
             /\ Called("set_columns", rows, 0)
       \/ /\ self' = migration_table_reset(self)
          /\ Called("reset", <<>>, 0)
    /\ UNCHANGED <<nodes, edgesets, sites, mutations, samples, emitted>>

TableNext ==
    \/ NodeTableCall
    \/ EdgesetTableCall
    \/ SiteTableCall
    \/ MutationTableCall
    \/ MigrationTableCall

TableSpec == TableInit /\ [][TableNext]_vars

\* the last call was op, on the table of this behaviour, and it returned 0
LastCall(op) == pc = "tables" /\ input.op = op /\ ret = 0

\* the table t holds exactly the rows given: their number, each column, and
\* the payload of each row where the lengths before it put it
HoldsRows(t, row(_, _), length, rows, f) ==
    /\ t.num_rows = Len(rows)
    /\ \A j \in 1..Len(rows) : row(t, j - 1) = rows[j]
    /\ length = SumSeq(Lengths(rows, f))

\* C18: after set_columns(n, columns) returned 0 on a node, edgeset, site,
\* mutation or migration table, whatever add_row and set_columns calls came
\* before it, the table has n rows, every column holds the data given for
\* rows 0..n-1, and the payload length is the sum of the lengths given, so
\* that row j's payload lies at [sum of len[i], i < j; sum of len[i], i <= j).
C18_SetColumnsRoundTrips ==
    LastCall("set_columns") =>
        CASE input.table = "node" ->
                 HoldsRows(nodes, node_row, nodes.total_name_length,
                           input.rows, "name")
          [] input.table = "edgeset" ->
                 HoldsRows(edgesets, edgeset_row, edgesets.total_children_length,
                           input.rows, "children")
          [] input.table = "site" ->
                 HoldsRows(sites, site_row, sites.total_ancestral_state_length,
                           input.rows, "ancestral_state")
          [] input.table = "mutation" ->
                 HoldsRows(mutations, mutation_row,
                           mutations.total_derived_state_length,
                           input.rows, "derived_state")
          [] input.table = "migration" ->
                 /\ self.num_rows = Len(input.rows)
                 /\ \A j \in 1..Len(input.rows) :
                        migration_row(self, j - 1) = input.rows[j]

\* the counts and capacities of the table of this behaviour: rows, payload,
\* and what is allocated for each
Capacities ==
    CASE input.table = "node" ->
             [num_rows |-> nodes.num_rows, max_rows |-> nodes.max_rows,
              row_increment |-> nodes.max_rows_increment,
              length |-> nodes.total_name_length,
              capacity |-> nodes.max_total_name_length,
              payload_increment |-> nodes.max_total_name_length_increment,
              rows_allocated |-> Len(nodes.name_length),
              payload_allocated |-> Len(nodes.name)]
      [] input.table = "edgeset" ->
             [num_rows |-> edgesets.num_rows, max_rows |-> edgesets.max_rows,
              row_increment |-> edgesets.max_rows_increment,
              length |-> edgesets.total_children_length,
              capacity |-> edgesets.max_total_children_length,
              payload_increment |-> edgesets.max_total_children_length_increment,
              rows_allocated |-> Len(edgesets.children_length),
              payload_allocated |-> Len(edgesets.children)]
      [] input.table = "site" ->
             [num_rows |-> sites.num_rows, max_rows |-> sites.max_rows,
              row_increment |-> sites.max_rows_increment,
              length |-> sites.total_ancestral_state_length,
              capacity |-> sites.max_total_ancestral_state_length,
              payload_increment |-> sites.max_total_ancestral_state_length_increment,
              rows_allocated |-> Len(sites.ancestral_state_length),
              payload_allocated |-> Len(sites.ancestral_state)]
      [] input.table = "mutation" ->
             [num_rows |-> mutations.num_rows, max_rows |-> mutations.max_rows,
              row_increment |-> mutations.max_rows_increment,
              length |-> mutations.total_derived_state_length,
              capacity |-> mutations.max_total_derived_state_length,
              payload_increment |->
                  mutations.max_total_derived_state_length_increment,
              rows_allocated |-> Len(mutations.derived_state_length),
              payload_allocated |-> Len(mutations.derived_state)]

\* a node, edgeset, site or mutation table is being worked on
PayloadTable == pc = "tables" /\ input.table # "migration"

\* the rows and the payload fit their capacities, and the capacities are
\* what is allocated
WithinCapacity(c) ==
    /\ c.num_rows <= c.max_rows
    /\ c.length <= c.capacity
    /\ c.rows_allocated = c.max_rows
    /\ c.payload_allocated = c.capacity

\* the capacities c grown by add_row of a payload of n cells: one
\* row_increment when the rows are full, payload_increment steps while the
\* payload with n more cells is not strictly below its capacity
Grown(c, n) ==
    [max_rows |-> IF c.num_rows = c.max_rows
                  THEN c.max_rows + c.row_increment ELSE c.max_rows,
     capacity |->
         CHOOSE m \in {c.capacity + k * c.payload_increment : k \in 0..(c.length + n + 1)} :
             /\ c.length + n < m
             /\ m = c.capacity \/ c.length + n >= m - c.payload_increment]

\* C19: after any sequence of alloc, add_row, set_columns and reset on a node,
\* edgeset, site or mutation table the rows and the payload are within their
\* capacities; an add_row grows the row capacity by exactly row_increment
\* when the rows are full and the payload capacity by payload_increment
\* steps until the payload with the new cells is strictly below it, and
\* what it writes is inside the columns allocated.
C19_WithinCapacity ==
    /\ [](PayloadTable => WithinCapacity(Capacities))
    /\ [][PayloadTable /\ LastCall("add_row")'
              => LET n == Len(input'.rows[1][CASE input.table = "node" -> "name"
                                              [] input.table = "edgeset" -> "children"
                                              [] input.table = "site" -> "ancestral_state"
                                              [] input.table = "mutation" -> "derived_state"])
                 IN /\ Capacities'.max_rows = Grown(Capacities, n).max_rows
                    /\ Capacities'.capacity = Grown(Capacities, n).capacity
                    /\ Capacities'.num_rows = Capacities.num_rows + 1
                    /\ Capacities'.length = Capacities.length + n
                    /\ Capacities'.num_rows <= Capacities'.rows_allocated
                    /\ Capacities'.length < Capacities'.payload_allocated]_vars

\* ------------------------------------------------- wide groups of lineages
\* Inputs in which one parent has many children: WideSamples leaf samples,
\* node WideSamples with one child on one half of the sequence, and three
\* older nodes in a tower above.  The rows are in the order the table
\* sorter leaves them.
WideSamples == 5

WideTimes == [i \in 0..(WideSamples + 3) |-> IF i < WideSamples THEN 0 ELSE i - WideSamples + 1]

WideRows(l, c, top) ==
    <<[left |-> l, right |-> l + 1, parent |-> WideSamples, children |-> <<0>>],
      [left |-> 0, right |-> SeqLen, parent |-> WideSamples + 1,
       children |-> [i \in 1..c |-> i - 1]],
      [left |-> 0, right |-> SeqLen, parent |-> WideSamples + 2,
       children |-> <<WideSamples, WideSamples + 1>>],
      [left |-> 0, right |-> SeqLen, parent |-> WideSamples + 3,
       children |-> top]>>

InitInPlace ==
    \E l \in 0..(SeqLen - 1), c \in 2..WideSamples :
    \E top \in {<<WideSamples + 2>>, <<WideSamples, WideSamples + 2>>} :
        InitWith(WideTimes, WideSamples, WideRows(l, c, top),
                 [i \in 1..WideSamples |-> i - 1])

InPlaceSpec == InitInPlace /\ [][Next]_vars

\* the cells first .. last (from 0) of column f of the edgeset table hold
\* what they held before the run
Intact(f, first, last) ==
    \A i \in (first + 1)..(last + 1) : edgesets[f][i] = input.edgesets[f][i]

\* simplifier_run is about to read row j
ReadsRow == pc = "row" /\ run.j < run.num_input_edgesets

\* simplifier_run is about to read children[k] of row j
ReadsChild == pc = "child" /\ run.k < run.children_length

\* C21: whenever simplifier_run reads input row j, its left, right, parent
\* and children_length and its slice of the children payload hold their
\* values from before the run: the output rows written so far are at most j
\* and the output children written so far end at or before the row's slice.
C21_UnreadInputIntact ==
    /\ ReadsRow =>
          /\ \A f \in {"left", "right", "parent", "children_length"} :
                 Intact(f, run.j, run.j)
          /\ edgesets.num_rows <= run.j
          /\ edgesets.total_children_length <= run.children_offset
    /\ ReadsChild =>
          /\ Intact("children", run.children + run.k,
                    run.children + run.children_length - 1)
          /\ edgesets.num_rows <= run.j
          /\ edgesets.total_children_length <= run.children

\* the segments on the chains of the ancestor map and of the merge queue
LiveSegments(s) ==
    UNION {Range(chain(s.segment_mem, chain_heads(s)[i])) :
              i \in 1..Len(chain_heads(s))}

\* no chain of s holds a segment that intersects [l, r)
NoSegmentIn(s, l, r) ==
    \A g \in LiveSegments(s) :
        ~(s.segment_mem[g].left < r /\ l < s.segment_mem[g].right)

\* the chain heads at the least left coordinate of the merge queue
BatchHeads ==
    {g \in self.merge_queue :
        \A k \in self.merge_queue :
            self.segment_mem[g].left <= self.segment_mem[k].left}

\* the overlap count at x: that of the entry at x, or of the entry before it
CountAt(x) ==
    self.overlap_counts[CHOOSE a \in DOMAIN self.overlap_counts :
        /\ a <= x
        /\ \A b \in DOMAIN self.overlap_counts : b <= x => b <= a]

\* the next pass of merge_ancestors takes a batch of h >= 2 heads at l and
\* finds the overlap count at l equal to h
FullBatch(l) ==
    /\ pc = "merge"
    /\ self.merge_queue /= {}
    /\ \A g \in BatchHeads : self.segment_mem[g].left = l
    /\ Cardinality(BatchHeads) >= 2
    /\ CountAt(l) = Cardinality(BatchHeads)

\* C22: when a batch of h >= 2 chain heads at l finds the overlap count at l
\* equal to h, the edgeset [l, r) is emitted, the count is set to 0 and no
\* segment for [l, r) is appended to the parent's chain; from then on no
\* chain of the ancestor map or of the merge queue holds a segment that
\* intersects [l, r), and no later output edgeset covers a position of it.
C22_FullCoalescence ==
    /\ [][\A l \in 0..(SeqLen - 1) :
              FullBatch(l) /\ pc' = "merge" /\ ret' = 0 =>
                  /\ Len(emitted') = Len(emitted) + 1
                  /\ emitted'[Len(emitted')].full
                  /\ emitted'[Len(emitted')].left = l
                  /\ emitted'[Len(emitted')].right
                         = overlap_next(self'.overlap_counts, l)
                  /\ Range(emitted'[Len(emitted')].children)
                         = {self.segment_mem[g].node : g \in BatchHeads}
                  /\ self'.overlap_counts[l] = 0
                  /\ NoSegmentIn(self', l, emitted'[Len(emitted')].right)]_vars
    /\ [](\A i \in 1..Len(emitted) :
              emitted[i].full /\ pc \in {"merge", "child", "row", "flush", "done"} =>
                  /\ NoSegmentIn(self, emitted[i].left, emitted[i].right)
                  /\ \A k \in (i + 1)..Len(emitted) :
                         ~(/\ emitted[k].left < emitted[i].right
                           /\ emitted[i].left < emitted[k].right))

\* an interval has coalesced, a later edgeset was emitted beside it, and
\* chains remain on the rest of the sequence
C22_Witness ==
    /\ pc = "merge"
    /\ \E i \in 1..Len(emitted) : emitted[i].full /\ i < Len(emitted)
    /\ LiveSegments(self) /= {}

\* a pass of the loop of merge_ancestors ran to its end and returned no
\* error
MergedBatch ==
    /\ pc = "merge"
    /\ self.merge_queue /= {}
    /\ pc' = "merge"
    /\ ret' = 0

\* C23: within one call merge_ancestors(input_id) at most one output node is
\* recorded, at the first batch with h >= 2, with the flags, time, population
\* and name of input_id; every edgeset the call emits has that node as
\* parent and every alpha it allocates at a coalescence maps to that node; a
\* batch with h = 1 emits no edgeset and passes its segment on with the
\* output node id unchanged.
C23_OneNodePerMerge ==
    /\ [](pc = "merge" /\ run.coalescence =>
              node_row(nodes, nodes.num_rows - 1)
                  = node_row(self.input_nodes, run.merge_id))
    /\ [][MergedBatch =>
              IF Cardinality(BatchHeads) = 1
              THEN /\ nodes' = nodes
                   /\ emitted' = emitted
                   /\ run'.coalescence = run.coalescence
                   /\ run'.z /= NULL
                   /\ \A g \in BatchHeads :
                          /\ self'.segment_mem[run'.z].node = self.segment_mem[g].node
                          /\ self'.segment_mem[run'.z].left = self.segment_mem[g].left
              ELSE /\ run'.coalescence
                   /\ nodes'.num_rows
                          = IF run.coalescence THEN nodes.num_rows
                            ELSE nodes.num_rows + 1
                   /\ run.coalescence => nodes' = nodes
                   /\ Len(emitted') = Len(emitted) + 1
                   /\ emitted'[Len(emitted')].parent = nodes'.num_rows - 1
                   /\ emitted'[Len(emitted')].input_id = run.merge_id
                   /\ run'.z /= run.z =>
                          self'.segment_mem[run'.z].node = nodes'.num_rows - 1]_vars

\* one call has emitted two edgesets, the second at a batch that recorded
\* no node
C23_Witness ==
    /\ pc = "merge"
    /\ run.coalescence
    /\ Len(emitted) >= 2
    /\ emitted[Len(emitted)].input_id = run.merge_id
    /\ emitted[Len(emitted) - 1].input_id = run.merge_id
    /\ emitted[Len(emitted)].parent = emitted[Len(emitted) - 1].parent
    /\ emitted[Len(emitted)].children /= emitted[Len(emitted) - 1].children

\* ------------------------------------------------------------ termination
\* simplifier_run is sequential code: the loop of merge_ancestors takes its
\* next pass while the queue holds a head, and returns when it is empty.
\* This is weak fairness of the steps taken at pc = "merge", WF_vars(pc =
\* "merge" /\ Next), with ENABLED written out: at pc = "merge" a pass or
\* the return is always possible.
FairSpec == Spec /\ ([]<>(pc # "merge") \/ []<><<pc = "merge">>_vars)

\* the least of a non-empty set of numbers
Least(S) == CHOOSE a \in S : \A b \in S : a <= b

\* r_max of the next pass: the least of the sequence length, the right ends
\* of the batch heads and the left end of the next head in the queue
BatchRMax ==
    Least({self.sequence_length}
          \cup {self.segment_mem[g].right : g \in BatchHeads}
          \cup {self.segment_mem[g].left : g \in self.merge_queue \ BatchHeads})

\* the heads the pass puts into the queue
Requeued == self'.merge_queue \ (self.merge_queue \ BatchHeads)

\* the length of the sequence covered by the segments of the queued chains
QueuedLength(s) ==
    SumSeq([i \in 1..Len(queue_order(s.segment_mem, s.merge_queue)) |->
        SumSeq([k \in 1..Len(chain(s.segment_mem,
                                   queue_order(s.segment_mem, s.merge_queue)[i])) |->
            s.segment_mem[chain(s.segment_mem,
                queue_order(s.segment_mem, s.merge_queue)[i])[k]].right
            - s.segment_mem[chain(s.segment_mem,
                queue_order(s.segment_mem, s.merge_queue)[i])[k]].left])])

\* C24: merge_ancestors terminates for every content of the merge queue that
\* simplifier_run reaches, and the queue is empty when it returns: in each
\* pass of its loop an emitted interval has l < r <= r_max, every head put
\* back into the queue has its left end strictly right of l or heads a
\* strictly shorter chain, and the queued chains cover strictly less.
C24_MergeTerminates ==
    /\ [][MergedBatch =>
              /\ Len(emitted') > Len(emitted) =>
                     /\ emitted'[Len(emitted')].left = Least({self.segment_mem[g].left : g \in BatchHeads})
                     /\ emitted'[Len(emitted')].left < emitted'[Len(emitted')].right
                     /\ emitted'[Len(emitted')].right <= BatchRMax
              /\ \A g \in Requeued :
                     \/ \A x \in BatchHeads :
                            self'.segment_mem[g].left > self.segment_mem[x].left
                     \/ \E x \in BatchHeads :
                            Len(chain(self'.segment_mem, g))
                                < Len(chain(self.segment_mem, x))
              /\ QueuedLength(self') < QueuedLength(self)]_vars
    /\ [][pc = "merge" /\ pc' \in {"child", "flush"} => self.merge_queue = {}]_vars
    /\ (pc = "merge") ~> (pc # "merge")

\* merge_ancestors returned after a pass that put a head back into the
\* queue and a pass that emitted an edgeset
C24_Witness ==
    /\ pc = "child"
    /\ run.coalescence
    /\ self.merge_queue = {}
    /\ self.ancestor_map[run.merge_id + 1] /= NULL
    /\ self.segment_mem[self.ancestor_map[run.merge_id + 1]].next /= NULL

\* table_sorter_sort_edgesets returned 0
EdgesetPassDone == pc \in {"sort_sites", "sort_mutations"} \/ SortSucceeded

\* the sequence c is in ascending order
Ascending(c) == \A k \in 1..(Len(c) - 1) : c[k] <= c[k + 1]

\* row a of the sorted table is row b of the table given with its children
\* put in ascending order
SameRowSorted(a, b) ==
    /\ a.left = b.left /\ a.right = b.right /\ a.parent = b.parent
    /\ Ascending(a.children)
    /\ SameMultiset(a.children, b.children)

\* C25: after the edgeset pass of the sorter the children of every edgeset
\* row are in ascending order of node id and are the children that row had
\* before the pass, each as often: no child moves to another row.
C25_ChildrenSorted ==
    EdgesetPassDone =>
        /\ edgesets.num_rows = input.edgesets.num_rows
        /\ \E p \in Orders(edgesets.num_rows) :
              \A j \in 1..edgesets.num_rows :
                  SameRowSorted(edgeset_row(edgesets, j - 1),
                                edgeset_row(input.edgesets, p[j] - 1))

\* the pass moved a row and put the children of a row into order
C25_Witness ==
    /\ SortSucceeded
    /\ edgesets.parent /= input.edgesets.parent
    /\ \E j \in 1..input.edgesets.num_rows :
          ~Ascending(edgeset_row(input.edgesets, j - 1).children)

\* the segments on the chains of s that cover position x
CoveringSegments(s, x) ==
    {g \in LiveSegments(s) :
        s.segment_mem[g].left <= x /\ x < s.segment_mem[g].right}

\* the value at x of the step function of the overlap counts of s
OverlapCountAt(s, x) ==
    s.overlap_counts[Least({a \in DOMAIN s.overlap_counts :
        /\ a <= x
        /\ \A b \in DOMAIN s.overlap_counts : b <= x => b <= a})]

\* at every position the overlap count of s is the number of segments there
CountsMatch(s) ==
    \A x \in 0..(s.sequence_length - 1) :
        OverlapCountAt(s, x) = Cardinality(CoveringSegments(s, x))

\* C26: at every check point between merges the overlap count at every
\* position of [0, sequence_length) is the number of segments of the
\* ancestor-map and merge-queue chains that cover it; the map always holds
\* entries at 0 and at sequence_length, the count num_samples + 1 at
\* sequence_length is never changed, and count -= h - 1 is applied only to
\* counts >= h.
C26_OverlapCounts ==
    /\ [](RunsCheckState => CountsMatch(self))
    /\ [][RemovedAncestry => CountsMatch(self')]_vars
    /\ [](Running =>
              /\ 0 \in DOMAIN self.overlap_counts
              /\ self.sequence_length \in DOMAIN self.overlap_counts
              /\ self.overlap_counts[self.sequence_length] = Len(samples) + 1)
    /\ [][MergedBatch =>
              \A a \in DOMAIN self'.overlap_counts :
                  \/ self'.overlap_counts[a] = OverlapCountAt(self, a)
                  \/ /\ OverlapCountAt(self, a) >= Cardinality(BatchHeads)
                     /\ self'.overlap_counts[a]
                            = IF /\ OverlapCountAt(self, a) = Cardinality(BatchHeads)
                                 /\ \A g \in BatchHeads : self.segment_mem[g].left = a
                              THEN 0
                              ELSE OverlapCountAt(self, a)
                                     - (Cardinality(BatchHeads) - 1)]_vars

\* ------------------------------------------------- keys of the merge queue
\* no two segments of the chains of s that share a position map to the same
\* output node
NoSharedNode(s) ==
    \A g \in LiveSegments(s) : \A k \in LiveSegments(s) \ {g} :
        s.segment_mem[g].node = s.segment_mem[k].node
            => \/ s.segment_mem[g].right <= s.segment_mem[k].left
               \/ s.segment_mem[k].right <= s.segment_mem[g].left

\* the heads in the queue of s have distinct (left, node) keys
DistinctKeys(s) ==
    \A g \in s.merge_queue : \A k \in s.merge_queue \ {g} :
        cmp_segment_queue(s.segment_mem[g], s.segment_mem[k]) /= 0

\* C27: whenever a chain head is inserted into the merge queue, by
\* simplifier_remove_ancestry or by the re-queueing of
\* simplifier_merge_ancestors, no entry with the same (left, node) key is in
\* the queue, so every insert adds an entry (the avl nodes allocated stay
\* those of the queue and of the overlap counts) and the assertion of the
\* insert holds; at any position no two segments of the
\* chains of the ancestor map and of the merge queue map to the same output
\* node.
C27_QueueKeysDistinct ==
    /\ [](Running => /\ DistinctKeys(self)
                      /\ NoSharedNode(self)
                      /\ self.num_avl_nodes = Cardinality(self.merge_queue)
                             + Cardinality(DOMAIN self.overlap_counts))
    /\ [][(pc = "child" /\ pc' = "child") \/ (pc = "merge" /\ pc' = "merge" /\ ret' = 0)
            => /\ Cardinality(self'.merge_queue) + Cardinality(DOMAIN self'.overlap_counts)
                    = self'.num_avl_nodes
               /\ DistinctKeys(self')]_vars

\* remove_ancestry has queued a head beside another one, and the merge has
\* re-queued the rest of a chain
C27_Witness ==
    /\ pc = "merge"
    /\ Cardinality(self.merge_queue) >= 2
    /\ \E g \in self.merge_queue : \E k \in self.merge_queue \ {g} :
           /\ self.segment_mem[g].left = self.segment_mem[k].left
           /\ self.segment_mem[g].node /= self.segment_mem[k].node
    /\ Len(emitted) >= 1

\* ------------------------------------------ node tables set from columns
\* node_table_set_columns with name == NULL and name_length == NULL
node_table_set_columns_no_name(t, num_rows, flags, time, population) ==
    [node_table_expand_fixed_columns(t, num_rows) EXCEPT
        !.flags = Memcpy(@, 0, Slice(flags, 0, num_rows)),
        !.time = Memcpy(@, 0, Slice(time, 0, num_rows)),
        !.total_name_length = 0,
        !.name_length = Memcpy(@, 0, [i \in 1..num_rows |-> 0]),
        !.population = Memcpy(@, 0, Slice(population, 0, num_rows)),
        !.num_rows = num_rows]

\* The node tables a caller sets from the columns of b: a new table given
\* all the columns, a new table given no names, and the table b itself given
\* no names.
ColumnTables(b) ==
    {node_table_set_columns(node_table_alloc(RowIncrement, PayloadIncrement),
         b.num_rows, b.flags, b.time, b.population, b.name, b.name_length),
     node_table_set_columns_no_name(node_table_alloc(RowIncrement, PayloadIncrement),
         b.num_rows, b.flags, b.time, b.population),
     node_table_set_columns_no_name(b, b.num_rows, b.flags, b.time, b.population)}

\* Every genealogy of at most MaxSetRows rows over three or four nodes, two
\* or more of them flagged as samples, the node table set from columns.
InitColumns ==
    \E n \in 3..4 : \E tp \in TimePatterns(n), k \in 2..MaxSamples :
    \E rows \in RowSeqs(tp, {row \in RowsOf(tp) : ValidRow(tp, row)},
                        MaxSetRows, FALSE) :
    \E smp \in SampleLists(k) :
    \E t \in ColumnTables(BuildNodes(tp, k, n)) :
        /\ nodes = t
        /\ edgesets = BuildEdgesets(rows, Len(rows))
        /\ sites = InitSites
        /\ mutations = InitMutations
        /\ samples = smp
        /\ self = simplifier_zero(<<>>, 0, 0)
        /\ run = run_zero
        /\ pc = "init"
        /\ ret = 0
        /\ input = [time |-> tp, flagged |-> k, rows |-> rows, nodes |-> t,
                    edgesets |-> BuildEdgesets(rows, Len(rows))]
        /\ emitted = <<>>

ColumnsSpec == InitColumns /\ [][Next]_vars

\* the two assertions of node_table_add_row_internal held at the last append
\* to t
HadRoom(t) ==
    /\ t.num_rows <= t.max_rows
    /\ t.num_rows > 0 => t.total_name_length < t.max_total_name_length

\* C28: whenever simplifier_record_node appends to the output node table
\* (for each sample in simplifier_alloc, and at the first coalescence of a
\* merge) the unchecked append has room, num_rows < max_rows and
\* total_name_length + name_length < max_total_name_length, for every node
\* table simplifier_alloc accepts, a table set by node_table_set_columns
\* with exactly the capacity required or with no names included.
C28_RecordNodeHasRoom ==
    /\ [](Running => HadRoom(nodes))
    /\ [][pc = "init" => pc' /= "aborted"]_vars

\* ------------------------------------------------ input and output nodes
\* the pairs <<input node, output node>>: output node j - 1 was recorded for
\* samples[j], and the parent of an emitted edgeset for the input node whose
\* group was merged
OutputNodeOf ==
    {<<samples[j], j - 1>> : j \in 1..Len(samples)}
        \cup {<<emitted[i].input_id, emitted[i].parent>> : i \in 1..Len(emitted)}

\* C29: after a successful simplifier_run each input node corresponds to
\* at most one output node, so the output node table has no more rows than
\* the input node table had; this holds also when a sample node is the
\* parent at which two or more lineages coalesce.
C29_OneOutputNodePerInput ==
    RunSucceeded =>
        /\ \A a \in OutputNodeOf : \A b \in OutputNodeOf :
               a[1] = b[1] => a[2] = b[2]
        /\ nodes.num_rows <= input.nodes.num_rows

\* --------------------------------------------------------- the last flush
\* the step is the last edgeset_table_add_row of simplifier_run
FlushesLast == pc = "flush" /\ pc' = "done"

\* C30: if the sweep has emitted no edgeset at all, the last flush passes a
\* children list of length zero to edgeset_table_add_row, so simplifier_run
\* returns BadParam and the output edgeset table has no rows;
\* simplifier_run returns 0 only when an edgeset was emitted.
C30_EmptyOutputIsBadParam ==
    /\ [][FlushesLast /\ emitted = <<>>
            => /\ self.last_edgeset.children_length = 0
               /\ ret' = MSP_ERR_BAD_PARAM_VALUE
               /\ edgesets'.num_rows = 0]_vars
    /\ [](RunSucceeded => Len(emitted) >= 1 /\ edgesets.num_rows >= 1)
    /\ [](pc = "done" /\ emitted = <<>> => ret /= 0 /\ edgesets.num_rows = 0)

\* simplifier_run has swept rows that merged single lineages only, and the
\* last flush has refused the empty edgeset
C30_Witness ==
    /\ pc = "done"
    /\ emitted = <<>>
    /\ ret = MSP_ERR_BAD_PARAM_VALUE
    /\ run.j = run.num_input_edgesets
    /\ run.j >= 1
    /\ edgesets.num_rows = 0

====
